---- MODULE Spec2Model ----
(***************************************************************************)
(* Zone capture / release / teardown / update of the scene-graph server    *)
(* (src/src/nodes/spatial/zone.rs).  Every handler is executed by a        *)
(* context (a thread) as a sequence of steps named after the source line   *)
(* they model; a context keeps a call stack of frames, since capture calls *)
(* release, and dropping the last reference to a Zone runs Drop for Zone,  *)
(* which calls release again.                                              *)
(***************************************************************************)
EXTENDS Integers, Sequences, FiniteSets, TLC

Threads == {"t1", "t2"}
SeqThreads == {"t1"}
Spatials == {"s1", "s2"}
Zones == {"z1", "z2"}
ParentIds == {"p1", "p2"}
MaxDist == 2
Dists == (-MaxDist)..MaxDist

None == "none"
NoZone == "nozone"
F32Max == 99

VARIABLES
    parent,       \* Spatial.parent: the parent link of each zoneable spatial
    old_parent,   \* Spatial.old_parent: the snapshot taken by capture
    pre_capture,  \* history: the parent a free spatial had when its capture was called
    zone,         \* Spatial.zone: Weak<Zone>, NoZone for Weak::new()
    captured,     \* Zone.captured: Registry<Spatial>
    zoneables,    \* Zone.zoneables: the stored visible map (its uid keys)
    aliasNodes,   \* alias nodes of each zone present in the client's scenegraph
    nodeOwned,    \* the scenegraph holds the zone's node
    zoneOwned,    \* the node's zone slot holds its Arc<Zone>
    zoneAlive,    \* strong count of the Zone is above zero (Weak::upgrade works)
    fieldAlive,   \* the zone's Weak<Field> can be upgraded
    spNodeAlive,  \* the spatial's node can be upgraded / resolved by path
    dist,         \* field.distance(spatial, origin) of each zone's field
    entered,      \* history: per zone, the ids sent "enter" with no later "leave"
    notified,     \* history: per zone, the ids sent "capture" with no later "release"
    sent,         \* per context: notifications sent during its current handler
    stack         \* per context: call stack, innermost frame last

zvars == <<entered, notified, parent, old_parent, pre_capture, zone, captured, zoneables, aliasNodes, nodeOwned,
           zoneOwned, zoneAlive, fieldAlive, spNodeAlive, dist, sent, stack>>

VARIABLES
    original,       \* Alias.original of an alias node, NoNode for a node with no alias slot
    info,           \* Alias.info: server_signals, server_methods, client_signals
    local_signals,  \* Node.local_signals: the names with a handler
    local_methods,  \* Node.local_methods: the names with a handler
    transport,      \* Node.message_sender_handle is Some
    alive,          \* a Weak<Node> of the node can be upgraded
    dcall,          \* the dispatch call in progress, its current node and message
    dresult,        \* the value returned by send_local_signal / send_remote_signal
    invoked,        \* the handlers invoked by the call, with the message each received
    completions,    \* the values sent on the responder by the dispatch code
    delivered       \* the handle.signal calls made by send_remote_signal

dvars == <<original, info, local_signals, local_methods, transport, alive, dcall, dresult,
           invoked, completions, delivered>>

VARIABLES
    slots,          \* Node.spatial / field / zone / sound: the instance each OnceCell holds
    table,          \* Node.local_signals, by name: the function registered
    sound_registry, \* SOUND_REGISTRY: the live Sound instances
    made,           \* the number of capability instances constructed so far
    areturn         \* what the last add_to call returned

avars == <<slots, table, sound_registry, made, areturn>>

VARIABLES
    scenegraph,     \* the created nodes that the client's scenegraph holds
    cslots,         \* per created node: the capability slots that are set
    csignals,       \* per created node: the names in Node.local_signals
    creating,       \* the create_* call in progress and its position
    attempted,      \* the kinds of node a create_* call has been made for
    panicked        \* a handler has unwrapped an empty slot

cvars == <<scenegraph, cslots, csignals, creating, attempted, panicked>>

VARIABLES
    reg,            \* Registry: the instances it has a weak entry for
    strong,         \* per instance: the number of Arc that hold it
    everAdded,      \* the instances that have been added
    scan,           \* get_valid_contents: the entries still to upgrade
    snapshot,       \* the Vec<Arc<T>> that get_valid_contents builds and the consumer holds
    cpc,            \* the consumer: "idle", "scan" (in get_valid_contents), "hold"
    atStart,        \* history: the registry when the snapshot began
    goneSince       \* history: the instances dropped since the snapshot began

rvars == <<reg, strong, everAdded, scan, snapshot, cpc, atStart, goneSince>>

VARIABLES
    length,         \* CylinderField.length (AtomicF32)
    radius,         \* CylinderField.radius (AtomicF32)
    spc,            \* set_size: "idle", or "s43" between its two stores
    sargs,          \* set_size: its arguments <<length, radius>>
    epc,            \* local_distance: "idle", "e61", "e62", "e63", "done"
    point,          \* local_distance: its argument p
    loaded,         \* local_distance: its locals <<length, radius>>
    result,         \* local_distance: the value it returns
    sbefore,        \* history: the pair stored when the set_size in progress began
    pairs,          \* history: the pairs stored before or by the one call of
                    \* set_size that ran during the evaluation
    calls           \* history: the number of such calls, up to 2

fvars == <<length, radius, spc, sargs, epc, point, loaded, result, sbefore, pairs, calls>>

VARIABLES
    play,           \* Sound.play: Mutex<Option<()>>, TRUE for Some(())
    stop,           \* Sound.stop: Mutex<Option<()>>, TRUE for Some(())
    instance,       \* Sound.instance: 0 for None, or the number of the instance playing
    started,        \* the number of instances sound_play has made
    upc,            \* Sound::update: "idle", "u65", "u66", "u70", "u71", "u77", "ret"
    tookStop,       \* history: this update took a stop request at line 65
    playAfterStop,  \* history: a play request was issued after the last stop request
    playStale,      \* history: the pending play request was issued while an instance played
    staleStart      \* history: an instance was started from such a request

svars == <<play, stop, instance, started, upc, tookStop, playAfterStop, playStale, staleStart>>

\* what the actions of each part of the model leave alone
nonzone == <<dvars, avars, cvars, rvars, fvars, svars>>
nondispatch == <<zvars, avars, cvars, rvars, fvars, svars>>
nonattach == <<zvars, dvars, cvars, rvars, fvars, svars>>
noncreate == <<zvars, dvars, avars, rvars, fvars, svars>>
nonregistry == <<zvars, dvars, avars, cvars, fvars, svars>>
nonfield == <<zvars, dvars, avars, cvars, rvars, svars>>
nonsound == <<zvars, dvars, avars, cvars, rvars, fvars>>

vars == <<zvars, dvars, avars, cvars, rvars, fvars, svars>>

----------------------------------------------------------------------------
(* Frames *)

Frame(fn, pc, s, z) ==
    [fn |-> fn, pc |-> pc, s |-> s, z |-> z, old |-> 0, new |-> 0,
     zref |-> NoZone, todo |-> {}, snap |-> {}, p0 |-> None]

Top(t) == stack[t][Len(stack[t])]
Idle(t) == stack[t] = <<>>
Running(t, fn, pc) == ~Idle(t) /\ Top(t).fn = fn /\ Top(t).pc = pc

SetTop(t, f) == [stack EXCEPT ![t] = [@ EXCEPT ![Len(@)] = f]]
Push(st, t, f) == [st EXCEPT ![t] = Append(@, f)]
Pop(t) == [stack EXCEPT ![t] = SubSeq(@, 1, Len(@) - 1)]

AllFrames == UNION {{<<t, i>> : i \in DOMAIN stack[t]} : t \in Threads}
FrameAt(ti) == stack[ti[1]][ti[2]]

Abs(x) == IF x < 0 THEN -x ELSE x

\* parking_lot::Mutex on Spatial.zone: held by release from line 42 to its return
HoldsZoneLock(f, s) ==
    f.fn = "release" /\ f.s = s
    /\ f.pc \in {"r44", "r45", "r47", "r51", "r52", "r53", "r54"}
ZoneLockFree(s) == \A ti \in AllFrames : ~HoldsZoneLock(FrameAt(ti), s)

\* Arc<Zone> temporaries: the upgraded zone release holds between lines 43 and 52
OtherHolders(t, z) ==
    {ti \in AllFrames : ti # <<t, Len(stack[t])>> /\ FrameAt(ti).fn = "release"
                        /\ FrameAt(ti).zref = z}

\* Arc<Node> of a zone node: the scenegraph's, and the one each running handler has
NodeAlive(z) ==
    nodeOwned[z] \/ \E ti \in AllFrames : FrameAt(ti).fn = "handler" /\ FrameAt(ti).z = z

----------------------------------------------------------------------------
(* Spatial (collaborator) *)

\* Spatial::zone_distance
ZoneDistance(s) ==
    IF zone[s] # NoZone /\ zoneAlive[zone[s]] /\ fieldAlive[zone[s]]
    THEN dist[zone[s]][s] ELSE F32Max

\* Spatial::set_spatial_parent_in_place with the taken snapshot
SetSpatialParentInPlace(cur, snap) == IF snap = None THEN cur ELSE snap

----------------------------------------------------------------------------
(* Node::send_remote_signal to the zone node's own endpoint *)

Note(kind, z, s) == <<kind, z, s>>
SendRemoteSignal(t, kind, z, s) == [sent EXCEPT ![t] = Append(@, Note(kind, z, s))]

\* the history of "capture" and "release" sent to z's client: a "capture"
\* about s opens a pair, a "release" about s closes it
Notify(kind, z, s) ==
    [notified EXCEPT ![z] = IF kind = "capture" THEN @ \cup {s} ELSE @ \ {s}]

----------------------------------------------------------------------------
(* capture, zone.rs lines 19-39 *)

\* line 20: let old_distance = spatial.zone_distance();
Capture20(t) ==
    /\ Running(t, "capture", "c20")
    /\ ZoneLockFree(Top(t).s)
    /\ stack' = SetTop(t, [Top(t) EXCEPT !.old = ZoneDistance(Top(t).s), !.pc = "c21"])
    /\ UNCHANGED <<nonzone, notified, entered, pre_capture, parent, old_parent, zone, captured, zoneables, aliasNodes,
                   nodeOwned, zoneOwned, zoneAlive, fieldAlive, spNodeAlive, dist, sent>>

NewDistanceZero(z, s) == IF fieldAlive[z] THEN dist[z][s] ELSE 0

\* lines 21-25: the new zone's field distance, f32::MAX when the field is gone
NewDistance(z, s) == IF fieldAlive[z] THEN dist[z][s] ELSE F32Max

Capture21(t) ==
    /\ Running(t, "capture", "c21")
    /\ stack' = SetTop(t, [Top(t) EXCEPT !.new = NewDistance(Top(t).z, Top(t).s),
                                         !.pc = "c26"])
    /\ UNCHANGED <<nonzone, notified, entered, pre_capture, parent, old_parent, zone, captured, zoneables, aliasNodes,
                   nodeOwned, zoneOwned, zoneAlive, fieldAlive, spNodeAlive, dist, sent>>

CaptureTestLe(new, old) == Abs(new) <= Abs(old)

\* line 26: if new_distance.abs() < old_distance.abs()
CaptureTest(new, old) == Abs(new) < Abs(old)

Capture26NoRelease(t) ==
    /\ Running(t, "capture", "c26")
    /\ stack' = SetTop(t, [Top(t) EXCEPT
                              !.pc = IF CaptureTest(Top(t).new, Top(t).old)
                                     THEN "c28" ELSE "c39"])
    /\ UNCHANGED <<nonzone, notified, entered, pre_capture, parent, old_parent, zone, captured, zoneables,
                   aliasNodes, nodeOwned, zoneOwned, zoneAlive, fieldAlive,
                   spNodeAlive, dist, sent>>

\* lines 26-27: the test; on success release(spatial) is called
Capture26(t) ==
    /\ Running(t, "capture", "c26")
    /\ IF CaptureTest(Top(t).new, Top(t).old)
       THEN stack' = Push(SetTop(t, [Top(t) EXCEPT !.pc = "c28"]), t,
                          Frame("release", "r41", Top(t).s, NoZone))
       ELSE stack' = SetTop(t, [Top(t) EXCEPT !.pc = "c39"])
    /\ UNCHANGED <<nonzone, notified, entered, pre_capture, parent, old_parent, zone, captured, zoneables, aliasNodes,
                   nodeOwned, zoneOwned, zoneAlive, fieldAlive, spNodeAlive, dist, sent>>

SnapshotNone(s) == None

\* line 28: *spatial.old_parent.lock() = spatial.get_parent();
Snapshot(s) == parent[s]

Capture28(t) ==
    /\ Running(t, "capture", "c28")
    /\ old_parent' = [old_parent EXCEPT ![Top(t).s] = Snapshot(Top(t).s)]
    /\ stack' = SetTop(t, [Top(t) EXCEPT !.pc = "c29"])
    /\ UNCHANGED <<nonzone, notified, entered, pre_capture, parent, zone, captured, zoneables, aliasNodes, nodeOwned,
                   zoneOwned, zoneAlive, fieldAlive, spNodeAlive, dist, sent>>

\* line 29: *spatial.zone.lock() = Arc::downgrade(zone);
Capture29(t) ==
    /\ Running(t, "capture", "c29")
    /\ ZoneLockFree(Top(t).s)
    /\ zone' = [zone EXCEPT ![Top(t).s] = Top(t).z]
    /\ stack' = SetTop(t, [Top(t) EXCEPT !.pc = "c30"])
    /\ UNCHANGED <<nonzone, notified, entered, pre_capture, parent, old_parent, captured, zoneables, aliasNodes, nodeOwned,
                   zoneOwned, zoneAlive, fieldAlive, spNodeAlive, dist, sent>>

Capture30Skip(t) ==
    /\ Running(t, "capture", "c30")
    /\ stack' = SetTop(t, [Top(t) EXCEPT !.pc = "c31"])
    /\ UNCHANGED <<nonzone, notified, entered, pre_capture, parent, old_parent, zone, captured, zoneables,
                   aliasNodes, nodeOwned, zoneOwned, zoneAlive, fieldAlive,
                   spNodeAlive, dist, sent>>

\* line 30: zone.captured.add_raw(spatial);
Capture30(t) ==
    /\ Running(t, "capture", "c30")
    /\ captured' = [captured EXCEPT ![Top(t).z] = @ \cup {Top(t).s}]
    /\ stack' = SetTop(t, [Top(t) EXCEPT !.pc = "c31"])
    /\ UNCHANGED <<nonzone, notified, entered, pre_capture, parent, old_parent, zone, zoneables, aliasNodes, nodeOwned,
                   zoneOwned, zoneAlive, fieldAlive, spNodeAlive, dist, sent>>

\* lines 31-37: resolve the zone's node and notify "capture"
\* (pre_capture records the parent a free spatial had at the call)
Capture31(t) ==
    /\ Running(t, "capture", "c31")
    /\ sent' = IF NodeAlive(Top(t).z)
               THEN SendRemoteSignal(t, "capture", Top(t).z, Top(t).s)
               ELSE sent
    /\ notified' = IF NodeAlive(Top(t).z)
                   THEN Notify("capture", Top(t).z, Top(t).s)
                   ELSE notified
    /\ pre_capture' = IF Top(t).p0 # None
                      THEN [pre_capture EXCEPT ![Top(t).s] = Top(t).p0]
                      ELSE pre_capture
    /\ stack' = SetTop(t, [Top(t) EXCEPT !.pc = "c39"])
    /\ UNCHANGED <<nonzone, entered, parent, old_parent, zone, captured, zoneables, aliasNodes,
                   nodeOwned, zoneOwned, zoneAlive, fieldAlive, spNodeAlive, dist>>

\* lines 38-39: capture returns
CaptureReturn(t) ==
    /\ Running(t, "capture", "c39")
    /\ stack' = Pop(t)
    /\ UNCHANGED <<nonzone, notified, entered, pre_capture, parent, old_parent, zone, captured, zoneables,
                   aliasNodes, nodeOwned, zoneOwned, zoneAlive, fieldAlive,
                   spNodeAlive, dist, sent>>

----------------------------------------------------------------------------
(* release, zone.rs lines 40-54 *)

\* line 41: restore the parent from the taken snapshot (old_parent lock held)
\* (p0 remembers, for a captured spatial, the parent it had before its capture)
Release41(t) ==
    /\ Running(t, "release", "r41")
    /\ parent' = [parent EXCEPT ![Top(t).s] =
                     SetSpatialParentInPlace(@, old_parent[Top(t).s])]
    /\ old_parent' = [old_parent EXCEPT ![Top(t).s] = None]
    /\ stack' = SetTop(t, [Top(t) EXCEPT
                              !.p0 = IF zone[Top(t).s] # NoZone
                                     THEN pre_capture[Top(t).s] ELSE None,
                              !.pc = "r42"])
    /\ UNCHANGED <<nonzone, notified, entered, pre_capture, zone, captured, zoneables, aliasNodes, nodeOwned, zoneOwned,
                   zoneAlive, fieldAlive, spNodeAlive, dist, sent>>

\* line 43: spatial_zone.upgrade()
Upgrade(s) == IF zone[s] # NoZone /\ zoneAlive[zone[s]] THEN zone[s] ELSE NoZone

\* lines 42-43: lock spatial.zone (kept to the return) and upgrade the reference
Release42(t) ==
    /\ Running(t, "release", "r42")
    /\ ZoneLockFree(Top(t).s)
    /\ stack' = SetTop(t, [Top(t) EXCEPT !.zref = Upgrade(Top(t).s),
                              !.pc = IF Upgrade(Top(t).s) # NoZone THEN "r44" ELSE "r53"])
    /\ UNCHANGED <<nonzone, notified, entered, pre_capture, parent, old_parent, zone, captured, zoneables, aliasNodes,
                   nodeOwned, zoneOwned, zoneAlive, fieldAlive, spNodeAlive, dist, sent>>

\* lines 44-46: the zone's node; an early return when it is gone
Release44(t) ==
    /\ Running(t, "release", "r44")
    /\ stack' = SetTop(t, [Top(t) EXCEPT
                              !.pc = IF NodeAlive(Top(t).zref) THEN "r47" ELSE "r45"])
    /\ UNCHANGED <<nonzone, notified, entered, pre_capture, parent, old_parent, zone, captured, zoneables, aliasNodes,
                   nodeOwned, zoneOwned, zoneAlive, fieldAlive, spNodeAlive, dist, sent>>

\* line 47: spatial_zone.captured.remove(spatial);
Release47Keep(t) ==
    /\ Running(t, "release", "r47")
    /\ stack' = SetTop(t, [Top(t) EXCEPT !.pc = "r51"])
    /\ UNCHANGED <<nonzone, notified, entered, pre_capture, parent, old_parent, zone, captured,
                   zoneables, aliasNodes, nodeOwned, zoneOwned, zoneAlive, fieldAlive,
                   spNodeAlive, dist, sent>>

\* line 47: spatial_zone.captured.remove(spatial);
Release47(t) ==
    /\ Running(t, "release", "r47")
    /\ captured' = [captured EXCEPT ![Top(t).zref] = @ \ {Top(t).s}]
    /\ stack' = SetTop(t, [Top(t) EXCEPT !.pc = "r51"])
    /\ UNCHANGED <<nonzone, notified, entered, pre_capture, parent, old_parent, zone, zoneables, aliasNodes, nodeOwned,
                   zoneOwned, zoneAlive, fieldAlive, spNodeAlive, dist, sent>>

Release51Silent(t) ==
    /\ Running(t, "release", "r51")
    /\ stack' = SetTop(t, [Top(t) EXCEPT !.pc = "r52"])
    /\ UNCHANGED <<nonzone, notified, entered, pre_capture, parent, old_parent, zone, captured,
                   zoneables, aliasNodes, nodeOwned, zoneOwned, zoneAlive, fieldAlive,
                   spNodeAlive, dist, sent>>

\* lines 48-51: notify "release" to the zone's node
Release51(t) ==
    /\ Running(t, "release", "r51")
    /\ sent' = SendRemoteSignal(t, "release", Top(t).zref, Top(t).s)
    /\ notified' = Notify("release", Top(t).zref, Top(t).s)
    /\ stack' = SetTop(t, [Top(t) EXCEPT !.pc = "r52"])
    /\ UNCHANGED <<nonzone, entered, pre_capture, parent, old_parent, zone, captured, zoneables, aliasNodes,
                   nodeOwned, zoneOwned, zoneAlive, fieldAlive, spNodeAlive, dist>>

\* line 52 (and the return of line 45): the upgraded Arc<Zone> goes out of scope
\* while the lock on spatial.zone is still held; dropping the last strong
\* reference runs Drop for Zone in this context
Release52(t) ==
    /\ ~Idle(t) /\ Top(t).fn = "release" /\ Top(t).pc \in {"r45", "r52"}
    /\ LET z == Top(t).zref
           last == ~zoneOwned[z] /\ OtherHolders(t, z) = {}
           next == [Top(t) EXCEPT !.zref = NoZone,
                                  !.pc = IF Top(t).pc = "r45" THEN "r54" ELSE "r53"]
       IN /\ zoneAlive' = IF last THEN [zoneAlive EXCEPT ![z] = FALSE] ELSE zoneAlive
          /\ stack' = IF last
                      THEN Push(SetTop(t, next), t, Frame("drop", "d157", None, z))
                      ELSE SetTop(t, next)
    /\ UNCHANGED <<nonzone, notified, entered, pre_capture, parent, old_parent, zone, captured, zoneables, aliasNodes,
                   nodeOwned, zoneOwned, fieldAlive, spNodeAlive, dist, sent>>

\* line 53: *spatial_zone = Weak::new(); line 54: the guard is dropped.
\* After the early return of line 45 only the guard is dropped.
Release53(t) ==
    /\ ~Idle(t) /\ Top(t).fn = "release" /\ Top(t).pc \in {"r53", "r54"}
    /\ zone' = IF Top(t).pc = "r53" THEN [zone EXCEPT ![Top(t).s] = NoZone] ELSE zone
    /\ stack' = Pop(t)
    /\ UNCHANGED <<nonzone, notified, entered, pre_capture, parent, old_parent, captured, zoneables, aliasNodes, nodeOwned,
                   zoneOwned, zoneAlive, fieldAlive, spNodeAlive, dist, sent>>

----------------------------------------------------------------------------
(* Drop for Zone, zone.rs lines 155-161 *)

\* Registry::get_valid_contents of the captured set
ValidContents(z) == captured[z]

\* line 157: the snapshot the loop iterates over
ZoneDrop157(t) ==
    /\ Running(t, "drop", "d157")
    /\ stack' = SetTop(t, [Top(t) EXCEPT !.todo = ValidContents(Top(t).z),
                                         !.snap = ValidContents(Top(t).z),
                                         !.pc = "d158"])
    /\ UNCHANGED <<nonzone, notified, entered, pre_capture, parent, old_parent, zone, captured, zoneables, aliasNodes,
                   nodeOwned, zoneOwned, zoneAlive, fieldAlive, spNodeAlive, dist, sent>>

ZoneDrop158First(t) ==
    /\ Running(t, "drop", "d158")
    /\ IF Top(t).todo = {}
       THEN /\ captured' = [captured EXCEPT ![Top(t).z] = {}]
            /\ stack' = Pop(t)
       ELSE /\ \E s \in Top(t).todo :
                 stack' = Push(SetTop(t, [Top(t) EXCEPT !.todo = {}]), t,
                               Frame("release", "r41", s, NoZone))
            /\ UNCHANGED captured
    /\ UNCHANGED <<nonzone, notified, entered, pre_capture, parent, old_parent, zone, zoneables, aliasNodes,
                   nodeOwned, zoneOwned, zoneAlive, fieldAlive, spNodeAlive, dist, sent>>

\* line 158: release(&captured) for the next element; after the loop the
\* Zone's fields, its captured registry among them, are dropped
ZoneDrop158(t) ==
    /\ Running(t, "drop", "d158")
    /\ IF Top(t).todo = {}
       THEN /\ captured' = [captured EXCEPT ![Top(t).z] = {}]
            /\ stack' = Pop(t)
       ELSE /\ \E s \in Top(t).todo :
                 stack' = Push(SetTop(t, [Top(t) EXCEPT !.todo = @ \ {s}]), t,
                               Frame("release", "r41", s, NoZone))
            /\ UNCHANGED captured
    /\ UNCHANGED <<nonzone, notified, entered, pre_capture, parent, old_parent, zone, zoneables, aliasNodes, nodeOwned,
                   zoneOwned, zoneAlive, fieldAlive, spNodeAlive, dist, sent>>

----------------------------------------------------------------------------
(* Zone::update, zone.rs lines 89-153 *)

Update90NoFieldCheck(t) ==
    /\ Running(t, "update", "u90")
    /\ \E client \in BOOLEAN :
         stack' = SetTop(t, [Top(t) EXCEPT
                               !.pc = IF ~(NodeAlive(Top(t).z) /\ client) THEN "u100"
                                      ELSE "u102"])
    /\ UNCHANGED <<nonzone, notified, entered, pre_capture, parent, old_parent, zone, captured, zoneables,
                   aliasNodes, nodeOwned, zoneOwned, zoneAlive, fieldAlive, spNodeAlive,
                   dist, sent>>

\* lines 89-101: resolve the field (error return of line 92), then the node
\* and its client (error return of line 100); whether the node's Weak<Client>
\* can be upgraded is an input of the call
Update90(t) ==
    /\ Running(t, "update", "u90")
    /\ \E client \in BOOLEAN :
         stack' = SetTop(t, [Top(t) EXCEPT
                               !.pc = IF ~fieldAlive[Top(t).z] THEN "u92"
                                      ELSE IF ~(NodeAlive(Top(t).z) /\ client) THEN "u100"
                                      ELSE "u102"])
    /\ UNCHANGED <<nonzone, notified, entered, pre_capture, parent, old_parent, zone, captured, zoneables, aliasNodes,
                   nodeOwned, zoneOwned, zoneAlive, fieldAlive, spNodeAlive, dist, sent>>

InsideAbs(self_zone_distance, spatial_zone_distance) ==
    self_zone_distance < 0 /\ Abs(spatial_zone_distance) > Abs(self_zone_distance)

\* line 120: self_zone_distance < 0.0 && spatial_zone_distance > self_zone_distance
Inside(self_zone_distance, spatial_zone_distance) ==
    self_zone_distance < 0 /\ spatial_zone_distance > self_zone_distance

\* lines 106-121: the filter over ZONEABLE_REGISTRY
Visible(z) ==
    {s \in Spatials : /\ spNodeAlive[s]
                      /\ \/ s \in ValidContents(z)
                         \/ Inside(dist[z][s], ZoneDistance(s))}

EnteredUidsAll(P, N) == N

\* line 143: the keys of the new map that the old map lacks
EnteredUids(P, N) == N \ P

\* line 146: the keys of the old map that the new map lacks
LeftUids(P, N) == P \ N

\* what the client has been told is visible, after the notes sent
Told(E, z, notes) ==
    (E \cup {s \in Spatials : \E i \in DOMAIN notes : notes[i] = Note("enter", z, s)})
       \ {s \in Spatials : \E i \in DOMAIN notes : notes[i] = Note("leave", z, s)}

Perms(S) == {q \in [1..Cardinality(S) -> S] : \A x \in S : \E i \in DOMAIN q : q[i] = x}
Notes(kind, z, q) == [i \in DOMAIN q |-> Note(kind, z, q[i])]

\* lines 102-152: destroy the old aliases, build the new map with one alias per
\* visible object, send "enter" then "leave" (a failing send returns the error
\* at once), and store the new map
Update102(t) ==
    /\ Running(t, "update", "u102")
    /\ LET z == Top(t).z
           P == zoneables[z]
           N == Visible(z)
       IN /\ \A s \in Spatials \ ValidContents(z) : spNodeAlive[s] => ZoneLockFree(s)
          /\ aliasNodes' = [aliasNodes EXCEPT ![z] = (@ \ P) \cup N]
          /\ \E pe \in Perms(EnteredUids(P, N)), pl \in Perms(LeftUids(P, N)) :
               LET msgs == Notes("enter", z, pe) \o Notes("leave", z, pl)
               IN \E k \in 0..Len(msgs) :
                    /\ sent' = [sent EXCEPT ![t] = @ \o SubSeq(msgs, 1, k)]
                    /\ entered' = [entered EXCEPT ![z] = Told(@, z, SubSeq(msgs, 1, k))]
                    /\ IF k = Len(msgs)
                       THEN /\ zoneables' = [zoneables EXCEPT ![z] = N]
                            /\ stack' = SetTop(t, [Top(t) EXCEPT !.pc = "u152",
                                                                 !.snap = P])
                       ELSE /\ UNCHANGED zoneables
                            /\ stack' = SetTop(t, [Top(t) EXCEPT !.pc = "uErr",
                                                                 !.snap = P])
    /\ UNCHANGED <<nonzone, notified, pre_capture, parent, old_parent, zone, captured, nodeOwned,
                   zoneOwned, zoneAlive, fieldAlive, spNodeAlive, dist>>

\* line 152 / the error returns
UpdateReturn(t) ==
    /\ ~Idle(t) /\ Top(t).fn = "update" /\ Top(t).pc \in {"u152", "uErr", "u92", "u100"}
    /\ stack' = Pop(t)
    /\ UNCHANGED <<nonzone, notified, entered, pre_capture, parent, old_parent, zone, captured, zoneables, aliasNodes,
                   nodeOwned, zoneOwned, zoneAlive, fieldAlive, spNodeAlive, dist, sent>>

----------------------------------------------------------------------------
(* Dispatch of a signal on a zone node: the handler owns an Arc<Node> *)

Dispatch(t, z, f) ==
    /\ Idle(t)
    /\ nodeOwned[z]
    /\ stack' = [stack EXCEPT ![t] = <<Frame("handler", "h", None, z), f>>]
    /\ sent' = [sent EXCEPT ![t] = <<>>]

\* Zone::capture_flex, lines 76-82
CaptureFlex(t, z, s) ==
    /\ spNodeAlive[s]
    /\ Dispatch(t, z, [Frame("capture", "c20", s, z) EXCEPT
                          !.p0 = IF zone[s] = NoZone THEN parent[s] ELSE None])
    /\ UNCHANGED <<nonzone, notified, entered, pre_capture, parent, old_parent, zone, captured, zoneables, aliasNodes,
                   nodeOwned, zoneOwned, zoneAlive, fieldAlive, spNodeAlive, dist>>

\* Zone::release_flex, lines 83-88
ReleaseFlex(t, z, s) ==
    /\ spNodeAlive[s]
    /\ Dispatch(t, z, Frame("release", "r41", s, NoZone))
    /\ UNCHANGED <<nonzone, notified, entered, pre_capture, parent, old_parent, zone, captured, zoneables, aliasNodes,
                   nodeOwned, zoneOwned, zoneAlive, fieldAlive, spNodeAlive, dist>>

\* Zone::update as a signal handler, line 89
UpdateFlex(t, z) ==
    /\ Dispatch(t, z, Frame("update", "u90", None, z))
    /\ UNCHANGED <<nonzone, notified, entered, pre_capture, parent, old_parent, zone, captured, zoneables, aliasNodes,
                   nodeOwned, zoneOwned, zoneAlive, fieldAlive, spNodeAlive, dist>>

\* NodeAspect::destroy on the zone's node (created destroyable, line 181):
\* Node::destroy removes the node from the scenegraph
DestroyNode(t, z) ==
    /\ Idle(t)
    /\ nodeOwned[z]
    /\ nodeOwned' = [nodeOwned EXCEPT ![z] = FALSE]
    /\ stack' = [stack EXCEPT ![t] = <<Frame("handler", "h", None, z)>>]
    /\ sent' = [sent EXCEPT ![t] = <<>>]
    /\ UNCHANGED <<nonzone, notified, entered, pre_capture, parent, old_parent, zone, captured, zoneables, aliasNodes,
                   zoneOwned, zoneAlive, fieldAlive, spNodeAlive, dist>>

\* The handler returns and gives up its Arc<Node>; the last one drops the Node
HandlerReturn(t) ==
    /\ Running(t, "handler", "h")
    /\ LET z == Top(t).z
           others == \E ti \in AllFrames : /\ ti[1] # t
                                           /\ FrameAt(ti).fn = "handler"
                                           /\ FrameAt(ti).z = z
       IN stack' = IF nodeOwned[z] \/ others
                   THEN Pop(t)
                   ELSE SetTop(t, Frame("nodedrop", "n", None, z))
    /\ sent' = [sent EXCEPT ![t] = <<>>]
    /\ UNCHANGED <<nonzone, notified, entered, pre_capture, parent, old_parent, zone, captured, zoneables, aliasNodes,
                   nodeOwned, zoneOwned, zoneAlive, fieldAlive, spNodeAlive, dist>>

\* The Node's fields are dropped: its zone slot releases the Arc<Zone>, and
\* the last strong reference runs Drop for Zone
NodeDrop(t) ==
    /\ Running(t, "nodedrop", "n")
    /\ LET z == Top(t).z
           last == OtherHolders(t, z) = {}
       IN /\ zoneOwned' = [zoneOwned EXCEPT ![z] = FALSE]
          /\ zoneAlive' = IF last THEN [zoneAlive EXCEPT ![z] = FALSE] ELSE zoneAlive
          /\ stack' = IF last THEN SetTop(t, Frame("drop", "d157", None, z)) ELSE Pop(t)
    /\ UNCHANGED <<nonzone, notified, entered, pre_capture, parent, old_parent, zone, captured, zoneables, aliasNodes,
                   nodeOwned, fieldAlive, spNodeAlive, dist, sent>>

----------------------------------------------------------------------------
(* What other parts of the server do to the objects involved *)

\* a transform change moves a spatial relative to a zone's field
Move(z, s, d) ==
    /\ dist[z][s] # d
    /\ dist' = [dist EXCEPT ![z][s] = d]
    /\ UNCHANGED <<nonzone, notified, entered, pre_capture, parent, old_parent, zone, captured, zoneables, aliasNodes,
                   nodeOwned, zoneOwned, zoneAlive, fieldAlive, spNodeAlive, sent, stack>>

\* set_spatial_parent / set_spatial_parent_in_place from a client
SetParent(s, p) ==
    /\ parent[s] # p
    /\ parent' = [parent EXCEPT ![s] = p]
    /\ UNCHANGED <<nonzone, notified, entered, pre_capture, old_parent, zone, captured, zoneables, aliasNodes, nodeOwned,
                   zoneOwned, zoneAlive, fieldAlive, spNodeAlive, dist, sent, stack>>

\* the node owning a zone's field is destroyed
DestroyField(z) ==
    /\ fieldAlive[z]
    /\ fieldAlive' = [fieldAlive EXCEPT ![z] = FALSE]
    /\ UNCHANGED <<nonzone, notified, entered, pre_capture, parent, old_parent, zone, captured, zoneables, aliasNodes,
                   nodeOwned, zoneOwned, zoneAlive, spNodeAlive, dist, sent, stack>>

\* the node of a zoneable spatial is destroyed (the Spatial may live on)
DestroySpatialNode(s) ==
    /\ spNodeAlive[s]
    /\ spNodeAlive' = [spNodeAlive EXCEPT ![s] = FALSE]
    /\ UNCHANGED <<nonzone, notified, entered, pre_capture, parent, old_parent, zone, captured, zoneables, aliasNodes,
                   nodeOwned, zoneOwned, zoneAlive, fieldAlive, dist, sent, stack>>

----------------------------------------------------------------------------
(* Dispatch through aliases, mod.rs lines 198-281 *)

DNodes == {"o", "a", "b"}
NoNode == "nonode"
SignalNames == {"set_transform", "set_spatial_parent", "set_spatial_parent_in_place",
                "destroy", "set_enabled", "capture", "release"}
MethodNames == {"get_bounds", "get_transform", "distance"}
RemoteNames == {"enter", "leave"}
Payloads == {"d1", "d2"}
FdSets == {{}, {"fd1"}}

ZoneAliasInfoWithDestroy ==
    [server_signals |-> {"set_transform", "set_spatial_parent",
                         "set_spatial_parent_in_place", "destroy"},
     server_methods |-> {"get_bounds", "get_transform"},
     client_signals |-> {}]

\* zone.rs lines 127-135: the AliasInfo of the aliases made by Zone::update
ZoneAliasInfo ==
    [server_signals |-> {"set_transform", "set_spatial_parent",
                         "set_spatial_parent_in_place"},
     server_methods |-> {"get_bounds", "get_transform"},
     client_signals |-> {}]

\* two more allow-lists an alias can be created with
OpenInfo ==
    [server_signals |-> SignalNames, server_methods |-> MethodNames,
     client_signals |-> RemoteNames]
NarrowInfo ==
    [server_signals |-> {"set_transform"}, server_methods |-> {},
     client_signals |-> {"enter"}]
Infos == {ZoneAliasInfo, OpenInfo, NarrowInfo}

\* handler tables of an original: a zone node, a plain spatial node, none
Tables ==
    {[signals |-> SignalNames, methods |-> MethodNames],
     [signals |-> SignalNames \ {"capture", "release"},
      methods |-> {"get_bounds", "get_transform"}],
     [signals |-> {}, methods |-> {}]}

NoCall == [op |-> "none", first |-> NoNode, at |-> NoNode, name |-> "", data |-> "",
           fds |-> {}, fds0 |-> {}, crossed |-> FALSE]

\* line 204 / 232: self.alias.get() is Some
IsAlias(n) == original[n] # NoNode

DIdle == dcall.op = "none"
DRunning(op) == dcall.op = op /\ dresult = "pending"

Begin(op, n, name, data, fds) ==
    /\ DIdle
    /\ alive[n]
    /\ dcall' = [op |-> op, first |-> n, at |-> n, name |-> name, data |-> data,
                 fds |-> fds, fds0 |-> fds, crossed |-> FALSE]
    /\ dresult' = "pending"
    /\ invoked' = <<>> /\ completions' = <<>> /\ delivered' = <<>>
    /\ UNCHANGED <<original, info, local_signals, local_methods, transport, alive>>

\* the message a handler is called with
Received(n) == [node |-> n, name |-> dcall.name, data |-> dcall.data, fds |-> dcall.fds]

\* lines 198-203
SendLocalSignal(n, name, data, fds) ==
    /\ Begin("signal", n, name, data, fds)
    /\ UNCHANGED nondispatch

AllowsSignalOrOriginalHas(n, name) ==
    name \in info[n].server_signals \/ name \in local_signals[original[n]]

\* line 205: alias.info.server_signals.iter().any(|e| e == &method)
AliasAllowsSignal(n, name) == name \in info[n].server_signals

\* line 212: the message is passed on as it came
ForwardedSignalFds(fds) == fds

\* lines 204-212: the node is an alias
SignalAlias ==
    /\ DRunning("signal") /\ IsAlias(dcall.at)
    /\ IF ~AliasAllowsSignal(dcall.at, dcall.name)
       THEN dresult' = "SignalNotFound" /\ UNCHANGED dcall
       ELSE IF ~alive[original[dcall.at]]
       THEN dresult' = "BrokenAlias" /\ UNCHANGED dcall
       ELSE /\ dcall' = [dcall EXCEPT !.at = original[dcall.at],
                                      !.fds = ForwardedSignalFds(@),
                                      !.crossed = TRUE]
            /\ UNCHANGED dresult
    /\ UNCHANGED <<original, info, local_signals, local_methods, transport, alive,
                   invoked, completions, delivered>>
    /\ UNCHANGED nondispatch

\* lines 213-223: look the handler up and call it; it returns Ok or an error,
\* which is wrapped in SignalError
SignalLocal ==
    /\ DRunning("signal") /\ ~IsAlias(dcall.at)
    /\ IF dcall.name \notin local_signals[dcall.at]
       THEN dresult' = "SignalNotFound" /\ UNCHANGED invoked
       ELSE /\ invoked' = Append(invoked, Received(dcall.at))
            /\ dresult' \in {"Ok", "SignalError"}
    /\ UNCHANGED <<original, info, local_signals, local_methods, transport, alive,
                   dcall, completions, delivered>>
    /\ UNCHANGED nondispatch

\* lines 225-231
ExecuteLocalMethod(n, name, data, fds) ==
    /\ Begin("method", n, name, data, fds)
    /\ UNCHANGED nondispatch

\* line 233: alias.info.server_methods.iter().any(|e| e == &method)
AliasAllowsMethod(n, name) == name \in info[n].server_methods

\* lines 244-247: Message { data: message.data.clone(), fds: Vec::new() }
ForwardedMethodFds(fds) == {}

MethodAliasSilentOnBroken ==
    /\ DRunning("method") /\ IsAlias(dcall.at)
    /\ IF ~AliasAllowsMethod(dcall.at, dcall.name)
       THEN /\ completions' = Append(completions, "MethodNotFound")
            /\ dresult' = "returned" /\ UNCHANGED dcall
       ELSE IF ~alive[original[dcall.at]]
       THEN /\ dresult' = "returned" /\ UNCHANGED <<dcall, completions>>
       ELSE /\ dcall' = [dcall EXCEPT !.at = original[dcall.at],
                                      !.fds = ForwardedMethodFds(@),
                                      !.crossed = TRUE]
            /\ UNCHANGED <<dresult, completions>>
    /\ UNCHANGED <<original, info, local_signals, local_methods, transport, alive,
                   invoked, delivered>>
    /\ UNCHANGED nondispatch

\* lines 232-249: the node is an alias
MethodAlias ==
    /\ DRunning("method") /\ IsAlias(dcall.at)
    /\ IF ~AliasAllowsMethod(dcall.at, dcall.name)
       THEN /\ completions' = Append(completions, "MethodNotFound")
            /\ dresult' = "returned" /\ UNCHANGED dcall
       ELSE IF ~alive[original[dcall.at]]
       THEN /\ completions' = Append(completions, "BrokenAlias")
            /\ dresult' = "returned" /\ UNCHANGED dcall
       ELSE /\ dcall' = [dcall EXCEPT !.at = original[dcall.at],
                                      !.fds = ForwardedMethodFds(@),
                                      !.crossed = TRUE]
            /\ UNCHANGED <<dresult, completions>>
    /\ UNCHANGED <<original, info, local_signals, local_methods, transport, alive,
                   invoked, delivered>>
    /\ UNCHANGED nondispatch

\* lines 250-256: look the handler up and hand it the message and the responder
MethodLocal ==
    /\ DRunning("method") /\ ~IsAlias(dcall.at)
    /\ IF dcall.name \notin local_methods[dcall.at]
       THEN completions' = Append(completions, "MethodNotFound") /\ UNCHANGED invoked
       ELSE invoked' = Append(invoked, Received(dcall.at)) /\ UNCHANGED completions
    /\ dresult' = "returned"
    /\ UNCHANGED <<original, info, local_signals, local_methods, transport, alive,
                   dcall, delivered>>
    /\ UNCHANGED nondispatch

AliasWantsAny(x, name) == TRUE

\* line 262: alias.info.client_signals.iter().any(|e| e == &method)
AliasWantsSignal(x, name) == name \in info[x].client_signals

\* lines 260-263: the aliases of n in its registry that pass the filters; an
\* alias is held by its node, and line 263 upgrades that node
LiveAliases(n, name) ==
    {x \in DNodes : original[x] = n /\ alive[x] /\ AliasWantsSignal(x, name)}

RECURSIVE Fanout(_, _, _, _), FanoutOver(_, _, _)

\* lines 258-281: the handle.signal calls of one send_remote_signal, in order:
\* those of each alias node, called with no fds (lines 266-272), then the
\* node's own (lines 276-278)
Fanout(n, name, data, fds) ==
    FanoutOver(LiveAliases(n, name), name, data)
       \o (IF transport[n]
           THEN <<[to |-> n, name |-> name, data |-> data, fds |-> fds, ok |-> TRUE]>>
           ELSE <<>>)

FanoutOver(S, name, data) ==
    IF S = {} THEN <<>>
    ELSE LET x == CHOOSE y \in S : TRUE
         IN Fanout(x, name, data, {}) \o FanoutOver(S \ {x}, name, data)

\* lines 258-281: every handle.signal may fail; the failures inside the alias
\* nodes are dropped (let _), the node's own is returned (?)
NodeSendRemoteSignal(n, name, data, fds) ==
    /\ DIdle
    /\ alive[n]
    /\ LET q == Fanout(n, name, data, fds)
       IN \E F \in SUBSET DOMAIN q :
            /\ delivered' = [i \in DOMAIN q |-> [q[i] EXCEPT !.ok = i \notin F]]
            /\ dresult' = IF transport[n] /\ Len(q) \in F THEN "Err" ELSE "Ok"
    /\ dcall' = [op |-> "remote", first |-> n, at |-> n, name |-> name, data |-> data,
                 fds |-> fds, fds0 |-> fds, crossed |-> FALSE]
    /\ invoked' = <<>> /\ completions' = <<>>
    /\ UNCHANGED <<original, info, local_signals, local_methods, transport, alive>>
    /\ UNCHANGED nondispatch

\* the call returns to its caller
DReturn ==
    /\ ~DIdle /\ dresult # "pending"
    /\ dcall' = NoCall /\ dresult' = "none"
    /\ invoked' = <<>> /\ completions' = <<>> /\ delivered' = <<>>
    /\ UNCHANGED <<original, info, local_signals, local_methods, transport, alive>>
    /\ UNCHANGED nondispatch

\* the last Arc<Node> of a node goes between two calls
DropNode(n) ==
    /\ DIdle /\ alive[n]
    /\ alive' = [alive EXCEPT ![n] = FALSE]
    /\ UNCHANGED <<original, info, local_signals, local_methods, transport, dcall,
                   dresult, invoked, completions, delivered>>
    /\ UNCHANGED nondispatch

DispatchWith(originals, infos, tables, transports) ==
    /\ original \in originals
    /\ info \in infos
    /\ \E tb \in tables :
         /\ local_signals = [n \in DNodes |-> IF n = "o" THEN tb.signals ELSE {}]
         /\ local_methods = [n \in DNodes |-> IF n = "o" THEN tb.methods ELSE {}]
    /\ transport \in transports
    /\ alive = [n \in DNodes |-> TRUE]
    /\ dcall = NoCall /\ dresult = "none"
    /\ invoked = <<>> /\ completions = <<>> /\ delivered = <<>>

Chain == [n \in DNodes |-> IF n = "o" THEN NoNode ELSE IF n = "a" THEN "o" ELSE "a"]
Star == [n \in DNodes |-> IF n = "o" THEN NoNode ELSE "o"]

\* the dispatch state of the specifications that make no dispatch call
DispatchFixed ==
    DispatchWith({Chain}, {[n \in DNodes |-> ZoneAliasInfo]},
                 {[signals |-> SignalNames, methods |-> MethodNames]},
                 {[n \in DNodes |-> TRUE]})

----------------------------------------------------------------------------
(* Attaching a capability to a node: Zone::add_to (zone.rs 63-75),          *)
(* CylinderField::add_to (cylinder.rs 21-39), Sound::add_to (audio.rs 35-59) *)

MaxMade == 3
MaxCalls == 4
Kinds == {"field", "zone", "sound"}
Empty == 0
HandlerNames == {"set_size", "capture", "release", "update", "play", "stop"}

\* Node::add_local_signal, mod.rs lines 182-184: insert replaces the entry
AddLocalSignal(tb, name, fn) == [tb EXCEPT ![name] = fn]

\* OnceCell::set: keeps the first value
OnceSet(cell, v) == IF cell = Empty THEN v ELSE cell

Returned(kind, res, inst) ==
    [n |-> areturn.n + 1, kind |-> kind, res |-> res, inst |-> inst]

\* Spatial::add_to fills the spatial slot of a node
SpatialAddTo ==
    /\ ~slots.spatial
    /\ slots' = [slots EXCEPT !.spatial = TRUE]
    /\ UNCHANGED <<table, sound_registry, made, areturn>>
    /\ UNCHANGED nonattach

\* cylinder.rs lines 21-39
CylinderAddTo ==
    /\ areturn.n < MaxCalls /\ made < MaxMade
    /\ IF ~slots.spatial \/ slots.field # Empty
       THEN /\ areturn' = Returned("field", "Err", Empty)
            /\ UNCHANGED <<slots, table, made>>
       ELSE /\ made' = made + 1
            /\ table' = AddLocalSignal(table, "set_size", "CylinderField::set_size_flex")
            /\ slots' = [slots EXCEPT !.field = OnceSet(@, made')]
            /\ areturn' = Returned("field", "Ok", made')
    /\ UNCHANGED sound_registry
    /\ UNCHANGED nonattach

\* zone.rs lines 63-75
ZoneAddTo ==
    /\ areturn.n < MaxCalls /\ made < MaxMade
    /\ made' = made + 1
    /\ table' = AddLocalSignal(AddLocalSignal(AddLocalSignal(table,
                    "capture", "Zone::capture_flex"),
                    "release", "Zone::release_flex"),
                    "update", "Zone::update")
    /\ slots' = [slots EXCEPT !.zone = OnceSet(@, made')]
    /\ areturn' = Returned("zone", "Ok", made')
    /\ UNCHANGED sound_registry
    /\ UNCHANGED nonattach

\* audio.rs lines 35-59; whether the client and the resource file are found
\* (lines 40-45) is an input of the call
SoundAddTo ==
    /\ areturn.n < MaxCalls /\ made < MaxMade
    /\ \E found \in BOOLEAN :
         IF ~slots.spatial \/ ~found
         THEN /\ areturn' = Returned("sound", "Err", Empty)
              /\ UNCHANGED <<slots, table, made, sound_registry>>
         ELSE /\ made' = made + 1
              /\ sound_registry' = sound_registry \cup {made'}
              /\ slots' = [slots EXCEPT !.sound = OnceSet(@, made')]
              /\ table' = AddLocalSignal(AddLocalSignal(table,
                              "play", "SoundAspect::play"), "stop", "SoundAspect::stop")
              /\ areturn' = Returned("sound", "Ok", made')
    /\ UNCHANGED nonattach

\* audio.rs lines 94-101: the caller lets go of a returned Arc<Sound> that no
\* slot holds, and Drop for Sound removes it from the registry
SoundDrop ==
    /\ areturn.kind = "sound" /\ areturn.res = "Ok"
    /\ areturn.inst \in sound_registry /\ slots.sound # areturn.inst
    /\ sound_registry' = sound_registry \ {areturn.inst}
    /\ UNCHANGED <<slots, table, made, areturn>>
    /\ UNCHANGED nonattach

AttachInit ==
    /\ slots = [spatial |-> FALSE, field |-> Empty, zone |-> Empty, sound |-> Empty]
    /\ table = [h \in HandlerNames |-> "none"]
    /\ sound_registry = {}
    /\ made = 0
    /\ areturn = [n |-> 0, kind |-> "none", res |-> "none", inst |-> Empty]

----------------------------------------------------------------------------
(* Node creation: create_zone_flex (zone.rs 163-185),                       *)
(* create_cylinder_field_flex (cylinder.rs 73-94), create_sound (audio.rs   *)
(* 113-129), with signals dispatched to the new node by another context     *)

CNodes == {"zone", "field", "sound"}
NotCreating == [node |-> "none", pc |-> "idle"]

\* the names each add_to registers, and the slot their handlers unwrap
KindSignals(k) ==
    IF k = "zone" THEN {"capture", "release", "update"}
    ELSE IF k = "field" THEN {"set_size"}
    ELSE {"play", "stop"}

Creating(k, pc) == creating.node = k /\ creating.pc = pc
Goto(pc) == creating' = [creating EXCEPT !.pc = pc]
ReturnErr == creating' = NotCreating

\* a client calls one of the three create functions
CreateBegin(k) ==
    /\ creating = NotCreating /\ k \notin attempted
    /\ creating' = [node |-> k, pc |-> "lookup"]
    /\ attempted' = attempted \cup {k}
    /\ UNCHANGED <<scenegraph, cslots, csignals, panicked>>
    /\ UNCHANGED noncreate

\* zone.rs 174-177, cylinder.rs 83-85, audio.rs 121-123: deserialize and find
\* the parent (and the field); each can fail, and the node is not yet published
CreateLookup ==
    /\ \E k \in CNodes : Creating(k, "lookup")
    /\ \E ok \in BOOLEAN : IF ok THEN Goto("publish") ELSE ReturnErr
    /\ UNCHANGED <<scenegraph, cslots, csignals, attempted, panicked>>
    /\ UNCHANGED noncreate

\* zone.rs 179-180, cylinder.rs 87, audio.rs 125: add_to_scenegraph()?
CreatePublish ==
    /\ \E k \in CNodes : Creating(k, "publish")
    /\ \E ok \in BOOLEAN :
         IF ok THEN /\ scenegraph' = scenegraph \cup {creating.node}
                    /\ Goto("spatial")
         ELSE ReturnErr /\ UNCHANGED scenegraph
    /\ UNCHANGED <<cslots, csignals, attempted, panicked>>
    /\ UNCHANGED noncreate

\* zone.rs 181, cylinder.rs 88, audio.rs 126: Spatial::add_to(&node, ..)?
CreateSpatial ==
    /\ \E k \in CNodes : Creating(k, "spatial")
    /\ \E ok \in BOOLEAN :
         IF ok THEN /\ cslots' = [cslots EXCEPT ![creating.node] = @ \cup {"spatial"}]
                    /\ Goto("attach")
         ELSE ReturnErr /\ UNCHANGED cslots
    /\ UNCHANGED <<scenegraph, csignals, attempted, panicked>>
    /\ UNCHANGED noncreate

\* Zone::add_to, zone.rs lines 70-72: the three add_local_signal
ZoneAddTo70 ==
    /\ Creating("zone", "attach")
    /\ csignals' = [csignals EXCEPT !["zone"] = @ \cup KindSignals("zone")]
    /\ Goto("set")
    /\ UNCHANGED <<scenegraph, cslots, attempted, panicked>>
    /\ UNCHANGED noncreate

\* Zone::add_to, zone.rs line 73: node.zone.set(zone.clone())
ZoneAddTo73 ==
    /\ Creating("zone", "set")
    /\ cslots' = [cslots EXCEPT !["zone"] = @ \cup {"zone"}]
    /\ Goto("ret")
    /\ UNCHANGED <<scenegraph, csignals, attempted, panicked>>
    /\ UNCHANGED noncreate

\* CylinderField::add_to, cylinder.rs lines 22-36: the two ensure! pass on the
\* new node; add_field_methods and add_local_signal("set_size")
CylinderAddTo22 ==
    /\ Creating("field", "attach")
    /\ IF "spatial" \in cslots["field"] /\ "field" \notin cslots["field"]
       THEN /\ csignals' = [csignals EXCEPT !["field"] = @ \cup KindSignals("field")]
            /\ Goto("set")
       ELSE ReturnErr /\ UNCHANGED csignals
    /\ UNCHANGED <<scenegraph, cslots, attempted, panicked>>
    /\ UNCHANGED noncreate

\* CylinderField::add_to, cylinder.rs line 37: node.field.set(..)
CylinderAddTo37 ==
    /\ Creating("field", "set")
    /\ cslots' = [cslots EXCEPT !["field"] = @ \cup {"field"}]
    /\ Goto("ret")
    /\ UNCHANGED <<scenegraph, csignals, attempted, panicked>>
    /\ UNCHANGED noncreate

\* Sound::add_to, audio.rs lines 36-56: ensure! the spatial, find the client
\* and the resource file (either can fail), add to the registry, set the slot
SoundAddTo36 ==
    /\ Creating("sound", "attach")
    /\ \E found \in BOOLEAN :
         IF "spatial" \in cslots["sound"] /\ found
         THEN /\ cslots' = [cslots EXCEPT !["sound"] = @ \cup {"sound"}]
              /\ Goto("set")
         ELSE ReturnErr /\ UNCHANGED cslots
    /\ UNCHANGED <<scenegraph, csignals, attempted, panicked>>
    /\ UNCHANGED noncreate

\* Sound::add_to, audio.rs line 57: add_node_members registers play and stop
SoundAddTo57 ==
    /\ Creating("sound", "set")
    /\ csignals' = [csignals EXCEPT !["sound"] = @ \cup KindSignals("sound")]
    /\ Goto("ret")
    /\ UNCHANGED <<scenegraph, cslots, attempted, panicked>>
    /\ UNCHANGED noncreate

\* zone.rs 184, cylinder.rs 90, audio.rs 128: Ok(())
CreateReturn ==
    /\ \E k \in CNodes : Creating(k, "ret")
    /\ creating' = NotCreating
    /\ UNCHANGED <<scenegraph, cslots, csignals, attempted, panicked>>
    /\ UNCHANGED noncreate

\* another context sends a signal to a published node: the handler found in
\* the table runs node.zone.get().unwrap() (zone.rs 77, 90),
\* node.field.get().unwrap() (cylinder.rs 51), node.sound.get().unwrap()
\* (audio.rs 84, 89), which panics on an empty slot
Invoke(n, name) ==
    /\ n \in scenegraph /\ name \in csignals[n]
    /\ panicked' = (panicked \/ n \notin cslots[n])
    /\ UNCHANGED <<scenegraph, cslots, csignals, creating, attempted>>
    /\ UNCHANGED noncreate

CreateInit ==
    /\ scenegraph = {}
    /\ cslots = [n \in CNodes |-> {}]
    /\ csignals = [n \in CNodes |-> {}]
    /\ creating = NotCreating
    /\ attempted = {}
    /\ panicked = FALSE

----------------------------------------------------------------------------
(* Registry of live instances, used by a per-frame consumer (audio.rs       *)
(* 103-107, zone.rs 106-110) while other contexts add and drop instances    *)
(* (audio.rs 55, 94-101)                                                    *)

MaxInst == 3
Insts == 1..MaxInst

\* Registry::add: a weak entry in the registry, the returned Arc with its owner
RegistryAdd(i) ==
    /\ i \notin everAdded
    /\ everAdded' = everAdded \cup {i}
    /\ reg' = reg \cup {i}
    /\ strong' = [strong EXCEPT ![i] = 1]
    /\ UNCHANGED <<scan, snapshot, cpc, atStart, goneSince>>
    /\ UNCHANGED nonregistry

\* an Arc of instance i goes; the one that takes the count to zero runs Drop,
\* which removes the entry (audio.rs lines 94-101)
Unref(i) ==
    /\ strong' = [strong EXCEPT ![i] = @ - 1]
    /\ IF strong[i] = 1
       THEN reg' = reg \ {i} /\ goneSince' = goneSince \cup {i}
       ELSE UNCHANGED <<reg, goneSince>>

\* the owner of instance i (a node's slot) lets go of it
OwnerDrop(i) ==
    /\ i \in reg /\ strong[i] > 0
    /\ i \notin {snapshot[k] : k \in DOMAIN snapshot} \/ strong[i] > 1
    /\ Unref(i)
    /\ UNCHANGED <<everAdded, scan, snapshot, cpc, atStart>>
    /\ UNCHANGED nonregistry

\* get_valid_contents begins: the entries to go through
SnapshotBegin ==
    /\ cpc = "idle"
    /\ cpc' = "scan"
    /\ scan' = reg
    /\ snapshot' = <<>>
    /\ atStart' = reg
    /\ goneSince' = {}
    /\ UNCHANGED <<reg, strong, everAdded>>
    /\ UNCHANGED nonregistry

UpgradesAlways(i) == TRUE

\* Weak::upgrade succeeds while an Arc holds the instance
Upgrades(i) == strong[i] > 0

\* get_valid_contents upgrades one entry and keeps the Arc if it got one
SnapshotVisit(i) ==
    /\ cpc = "scan" /\ i \in scan
    /\ scan' = scan \ {i}
    /\ IF Upgrades(i)
       THEN /\ snapshot' = Append(snapshot, i)
            /\ strong' = [strong EXCEPT ![i] = @ + 1]
       ELSE UNCHANGED <<snapshot, strong>>
    /\ UNCHANGED <<reg, everAdded, cpc, atStart, goneSince>>
    /\ UNCHANGED nonregistry

\* get_valid_contents returns; the consumer iterates (audio.rs lines 104-106)
SnapshotReturn ==
    /\ cpc = "scan" /\ scan = {}
    /\ cpc' = "hold"
    /\ UNCHANGED <<reg, strong, everAdded, scan, snapshot, atStart, goneSince>>
    /\ UNCHANGED nonregistry

\* the consumer is done with one element of the snapshot and drops its Arc
SnapshotRelease ==
    /\ cpc = "hold" /\ snapshot # <<>>
    /\ Unref(Head(snapshot))
    /\ snapshot' = Tail(snapshot)
    /\ UNCHANGED <<everAdded, scan, cpc, atStart>>
    /\ UNCHANGED nonregistry

\* the frame ends
SnapshotEnd ==
    /\ cpc = "hold" /\ snapshot = <<>>
    /\ cpc' = "idle"
    /\ UNCHANGED <<reg, strong, everAdded, scan, snapshot, atStart, goneSince>>
    /\ UNCHANGED nonregistry

RegistryInit ==
    /\ reg = {} /\ strong = [i \in Insts |-> 0] /\ everAdded = {}
    /\ scan = {} /\ snapshot = <<>> /\ cpc = "idle"
    /\ atStart = {} /\ goneSince = {}

----------------------------------------------------------------------------
(* CylinderField: set_size and local_distance (cylinder.rs lines 41-67)     *)
(*                                                                          *)
(* f32 in miniature: a value is a whole number of steps of 1/Grid, the step *)
(* standing for the least positive f32. A product or a root that falls      *)
(* between two steps is rounded to the nearest, ties to even, so that the   *)
(* square of one step is 0 as the square of 1e-30 is in f32.                *)

Grid == 4
MaxCoord == 3
MaxSize == 2
Coords == -1..MaxCoord
\* points on the plane x = 0 or the plane y = 0
Points == {p \in Coords \X Coords \X Coords : p[1] = 0 \/ p[2] = 0}
\* the arguments of set_size; the lengths have their half on the grid
LengthArgs == {-2, 0, 2 * MaxSize}
RadiusArgs == {-1, 0, MaxSize}

Max(a, b) == IF a >= b THEN a ELSE b
Min(a, b) == IF a <= b THEN a ELSE b

\* n / d rounded to the nearest whole number, ties to even (n >= 0, d > 0)
RoundDiv(n, d) ==
    LET q == n \div d
        r == n % d
    IN  IF 2 * r < d THEN q
        ELSE IF 2 * r > d THEN q + 1
        ELSE IF q % 2 = 0 THEN q ELSE q + 1

\* a * b for two values of the same sign
FMul(a, b) == RoundDiv(a * b, Grid)

\* the square root of n steps, in steps, rounded to the nearest
FSqrt(n) ==
    CHOOSE r \in 0..(n * Grid + 1) :
        /\ (2 * r - 1) * (2 * r - 1) <= 4 * n * Grid \/ r = 0
        /\ 4 * n * Grid < (2 * r + 1) * (2 * r + 1)

\* glam Vec2::length: sqrt(dot(v, v))
Vec2Length(x, y) == FSqrt(FMul(x, x) + FMul(y, y))

\* cylinder.rs lines 64-66
LocalDistance(p, len, rad) ==
    LET dx == Abs(Vec2Length(p[1], p[2])) - rad
        dy == Abs(p[3]) - RoundDiv(len, 2)
    IN  Min(Max(dx, dy), 0) + Vec2Length(Max(dx, 0), Max(dy, 0))

FRunning == epc \in {"e61", "e62", "e63"}

\* set_size, line 42: self.length.store(length.abs())
SetSize42(l, r) ==
    /\ spc = "idle"
    /\ length' = Abs(l)
    /\ spc' = "s43"
    /\ sargs' = <<l, r>>
    /\ sbefore' = <<length, radius>>
    /\ IF FRunning
       THEN /\ pairs' = IF calls = 0 THEN pairs \cup {<<Abs(l), Abs(r)>>} ELSE {}
            /\ calls' = Min(calls + 1, 2)
       ELSE UNCHANGED <<pairs, calls>>
    /\ UNCHANGED <<radius, epc, point, loaded, result>>
    /\ UNCHANGED nonfield

\* set_size, line 43: self.radius.store(radius.abs())
SetSize43 ==
    /\ spc = "s43"
    /\ radius' = Abs(sargs[2])
    /\ spc' = "idle"
    /\ sargs' = <<0, 0>>
    /\ sbefore' = <<0, 0>>
    /\ UNCHANGED <<length, epc, point, loaded, result, pairs, calls>>
    /\ UNCHANGED nonfield

\* local_distance is called with p
LocalDistance60(p) ==
    /\ epc = "idle"
    /\ epc' = "e61"
    /\ point' = p
    /\ pairs' = IF spc = "idle"
                THEN {<<length, radius>>}
                ELSE {sbefore, <<Abs(sargs[1]), Abs(sargs[2])>>}
    /\ calls' = IF spc = "idle" THEN 0 ELSE 1
    /\ UNCHANGED <<length, radius, spc, sargs, loaded, result, sbefore>>
    /\ UNCHANGED nonfield

\* line 61: let radius = self.radius.load()
LocalDistance61 ==
    /\ epc = "e61"
    /\ loaded' = [loaded EXCEPT ![2] = radius]
    /\ epc' = "e62"
    /\ UNCHANGED <<length, radius, spc, sargs, point, result, sbefore, pairs, calls>>
    /\ UNCHANGED nonfield

\* line 62: let length = self.length.load()
LocalDistance62 ==
    /\ epc = "e62"
    /\ loaded' = [loaded EXCEPT ![1] = length]
    /\ epc' = "e63"
    /\ UNCHANGED <<length, radius, spc, sargs, point, result, sbefore, pairs, calls>>
    /\ UNCHANGED nonfield

\* lines 63-66: the distance from the two locals
LocalDistance63 ==
    /\ epc = "e63"
    /\ result' = LocalDistance(point, loaded[1], loaded[2])
    /\ epc' = "done"
    /\ UNCHANGED <<length, radius, spc, sargs, point, loaded, sbefore, pairs, calls>>
    /\ UNCHANGED nonfield

\* the caller has the result
LocalDistanceReturn ==
    /\ epc = "done"
    /\ epc' = "idle"
    /\ point' = <<0, 0, 0>>
    /\ loaded' = <<0, 0>>
    /\ result' = 0
    /\ pairs' = {}
    /\ calls' = 0
    /\ UNCHANGED <<length, radius, spc, sargs, sbefore>>
    /\ UNCHANGED nonfield

\* cylinder.rs lines 30-34: the field is made with |length| and |radius|
FieldInit ==
    /\ length = 2 /\ radius = 1
    /\ spc = "idle" /\ sargs = <<0, 0>> /\ sbefore = <<0, 0>>
    /\ epc = "idle" /\ point = <<0, 0, 0>> /\ loaded = <<0, 0>> /\ result = 0
    /\ pairs = {} /\ calls = 0

----------------------------------------------------------------------------
(* Sound: play and stop requests and the per-frame update (audio.rs 61-93)  *)

MaxStarts == 3
NoInstance == 0

\* SoundAspect::play, line 86: sound.play.lock().replace(())
SoundPlay ==
    /\ play' = TRUE
    /\ playAfterStop' = TRUE
    /\ playStale' = (instance # NoInstance)
    /\ UNCHANGED <<stop, instance, started, upc, tookStop, staleStart>>
    /\ UNCHANGED nonsound

\* SoundAspect::stop, line 91: sound.stop.lock().replace(())
SoundStop ==
    /\ stop' = TRUE
    /\ playAfterStop' = FALSE
    /\ UNCHANGED <<play, instance, started, upc, tookStop, playStale, staleStart>>
    /\ UNCHANGED nonsound

\* update is called for the frame (lines 61-64); it makes at most MaxStarts instances
SoundUpdate61 ==
    /\ upc = "idle"
    /\ started < MaxStarts
    /\ upc' = "u65"
    /\ UNCHANGED <<play, stop, instance, started, tookStop, playAfterStop, playStale, staleStart>>
    /\ UNCHANGED nonsound

\* line 65: if self.stop.lock().take().is_some()
SoundUpdate65 ==
    /\ upc = "u65"
    /\ stop' = FALSE
    /\ tookStop' = stop
    /\ upc' = IF stop THEN "u66" ELSE "u70"
    /\ UNCHANGED <<play, instance, started, playAfterStop, playStale, staleStart>>
    /\ UNCHANGED nonsound

\* lines 66-68: the instance, if there is one, is taken and stopped
SoundUpdate66 ==
    /\ upc = "u66"
    /\ instance' = NoInstance
    /\ upc' = "u70"
    /\ UNCHANGED <<play, stop, started, tookStop, playAfterStop, playStale, staleStart>>
    /\ UNCHANGED nonsound

\* line 70: if self.instance.lock().is_none() && self.play.lock().take().is_some()
SoundUpdate70 ==
    /\ upc = "u70"
    /\ IF instance = NoInstance
       THEN /\ play' = FALSE
            /\ upc' = IF play THEN "u71" ELSE "u77"
            /\ staleStart' = (staleStart \/ (play /\ playStale))
       ELSE /\ upc' = "u77"
            /\ UNCHANGED <<play, staleStart>>
    /\ UNCHANGED <<stop, instance, started, tookStop, playAfterStop, playStale>>
    /\ UNCHANGED nonsound

\* lines 71-75: self.instance.lock().replace(sk.sound_play(..))
SoundUpdate71 ==
    /\ upc = "u71"
    /\ started' = started + 1
    /\ instance' = started + 1
    /\ upc' = "u77"
    /\ UNCHANGED <<play, stop, tookStop, playAfterStop, playStale, staleStart>>
    /\ UNCHANGED nonsound

\* lines 77-79: the position of the instance, if there is one, is set
SoundUpdate77 ==
    /\ upc = "u77"
    /\ upc' = "ret"
    /\ UNCHANGED <<play, stop, instance, started, tookStop, playAfterStop, playStale, staleStart>>
    /\ UNCHANGED nonsound

\* line 80: update returns
SoundUpdateReturn ==
    /\ upc = "ret"
    /\ upc' = "idle"
    /\ tookStop' = FALSE
    /\ UNCHANGED <<play, stop, instance, started, playAfterStop, playStale, staleStart>>
    /\ UNCHANGED nonsound

\* audio.rs lines 46-54: no request pending, nothing playing
SoundInit ==
    /\ play = FALSE /\ stop = FALSE /\ instance = NoInstance /\ started = 0
    /\ upc = "idle" /\ tookStop = FALSE
    /\ playAfterStop = FALSE /\ playStale = FALSE /\ staleStart = FALSE

----------------------------------------------------------------------------

ZoneInit(parents, dists) ==
    /\ parent \in parents
    /\ old_parent = [s \in Spatials |-> None]
    /\ pre_capture = [s \in Spatials |-> None]
    /\ zone = [s \in Spatials |-> NoZone]
    /\ captured = [z \in Zones |-> {}]
    /\ zoneables = [z \in Zones |-> {}]
    /\ aliasNodes = [z \in Zones |-> {}]
    /\ nodeOwned = [z \in Zones |-> TRUE]
    /\ zoneOwned = [z \in Zones |-> TRUE]
    /\ zoneAlive = [z \in Zones |-> TRUE]
    /\ fieldAlive = [z \in Zones |-> TRUE]
    /\ spNodeAlive = [s \in Spatials |-> TRUE]
    /\ dist \in dists
    /\ entered = [z \in Zones |-> {}]
    /\ notified = [z \in Zones |-> {}]
    /\ sent = [t \in Threads |-> <<>>]
    /\ stack = [t \in Threads |-> <<>>]

\* the parts that take no step in the specifications of the zones
RestInit == CreateInit /\ RegistryInit /\ FieldInit /\ SoundInit

InitWith(parents, dists) ==
    ZoneInit(parents, dists) /\ DispatchFixed /\ AttachInit /\ RestInit

\* the steps inside capture and release, and the handler's return
CaptureSteps(t) ==
    \/ Capture20(t) \/ Capture21(t) \/ Capture26(t) \/ Capture28(t)
    \/ Capture29(t) \/ Capture30(t) \/ Capture31(t) \/ CaptureReturn(t)
    \/ Release41(t) \/ Release42(t) \/ Release44(t) \/ Release47(t)
    \/ Release51(t) \/ Release52(t) \/ Release53(t)
    \/ HandlerReturn(t)

TeardownSteps(t) == NodeDrop(t) \/ ZoneDrop157(t) \/ ZoneDrop158(t)

UpdateSteps(t) == Update90(t) \/ Update102(t) \/ UpdateReturn(t)

Quiet == \A t \in Threads : Idle(t)

----------------------------------------------------------------------------
(* Spec: one context, one zoneable spatial moving between two zones; every  *)
(* handler runs to completion before anything else happens                  *)

Init ==
    InitWith({p \in [Spatials -> ParentIds] : p["s2"] = "p1"},
             {d \in [Zones -> [Spatials -> Dists]] : \A z \in Zones : d[z]["s2"] = 1})

Next ==
    \/ \E t \in SeqThreads :
         \/ \E z \in Zones : CaptureFlex(t, z, "s1")
         \/ \E z \in Zones : ReleaseFlex(t, z, "s1")
         \/ \E z \in Zones : DestroyNode(t, z)
         \/ CaptureSteps(t)
         \/ TeardownSteps(t)
    \/ /\ Quiet
       /\ \/ \E z \in Zones, d \in Dists : Move(z, "s1", d)
          \/ \E p \in ParentIds : SetParent("s1", p)
          \/ \E z \in Zones : DestroyField(z)

Spec == Init /\ [][Next]_vars

----------------------------------------------------------------------------
(* SpecDrop: one context, two zoneable spatials at fixed distances (both    *)
(* nearer to z1 than to z2), zones torn down while they hold several        *)

DropDist == [z \in Zones |-> [s \in Spatials |-> IF z = "z1" THEN -1 ELSE 2]]

InitDrop == InitWith([Spatials -> ParentIds], {DropDist})

NextDrop ==
    \/ \E t \in SeqThreads :
         \/ \E z \in Zones, s \in Spatials : CaptureFlex(t, z, s)
         \/ \E z \in Zones, s \in Spatials : ReleaseFlex(t, z, s)
         \/ \E z \in Zones : DestroyNode(t, z)
         \/ CaptureSteps(t)
         \/ TeardownSteps(t)
    \/ /\ Quiet
       /\ \E s \in Spatials, p \in ParentIds : SetParent(s, p)

SpecDrop == InitDrop /\ [][NextDrop]_vars

----------------------------------------------------------------------------
(* SpecUpdate: one context; zone z1 recomputes its visible set while s1 is  *)
(* captured, released and moved, and s2 stays free, inside or outside z1    *)

InitUpdate ==
    InitWith({[s \in Spatials |-> "p1"]},
             {d \in [Zones -> [Spatials -> Dists]] :
                 d["z1"]["s2"] \in {-1, 1} /\ d["z2"]["s2"] = 1})

NextUpdate ==
    \/ \E t \in SeqThreads :
         \/ \E z \in Zones : CaptureFlex(t, z, "s1")
         \/ \E z \in Zones : ReleaseFlex(t, z, "s1")
         \/ UpdateFlex(t, "z1")
         \/ CaptureSteps(t)
         \/ UpdateSteps(t)
    \/ /\ Quiet
       /\ \/ \E z \in Zones, d \in Dists : Move(z, "s1", d)
          \/ \E z \in Zones : DestroyField(z)
          \/ \E s \in Spatials : DestroySpatialNode(s)

SpecUpdate == InitUpdate /\ [][NextUpdate]_vars

----------------------------------------------------------------------------
(* SpecConc: two contexts whose handlers interleave step by step on one     *)
(* spatial and two zones                                                    *)

ConcDist == [z \in Zones |-> [s \in Spatials |-> IF z = "z1" THEN -1 ELSE 2]]

InitConc == InitWith({[s \in Spatials |-> "p1"]}, {ConcDist})

NextConc ==
    \E t \in Threads :
       \/ \E z \in Zones : CaptureFlex(t, z, "s1")
       \/ \E z \in Zones : ReleaseFlex(t, z, "s1")
       \/ \E z \in Zones : DestroyNode(t, z)
       \/ CaptureSteps(t)
       \/ TeardownSteps(t)

SpecConc == InitConc /\ [][NextConc]_vars

----------------------------------------------------------------------------
(* SpecDispatch: signals, methods and remote signals sent to a plain node o *)
(* and to two aliases, b an alias of a or of o, with every allow-list and   *)
(* handler table of Infos and Tables; nodes die between calls               *)

ZoneFixed == ZoneInit({[s \in Spatials |-> "p1"]}, {ConcDist})

InitDispatch ==
    /\ ZoneFixed
    /\ AttachInit
    /\ RestInit
    /\ DispatchWith({Chain, Star},
                    {f \in [DNodes -> Infos] : f["o"] = ZoneAliasInfo},
                    Tables,
                    {f \in [DNodes -> BOOLEAN] : f["b"]})

NextDispatch ==
    \/ \E n \in DNodes, name \in SignalNames, data \in Payloads, fds \in FdSets :
         SendLocalSignal(n, name, data, fds)
    \/ SignalAlias
    \/ SignalLocal
    \/ \E n \in DNodes, name \in MethodNames, data \in Payloads, fds \in FdSets :
         ExecuteLocalMethod(n, name, data, fds)
    \/ MethodAlias
    \/ MethodLocal
    \/ \E n \in DNodes, name \in RemoteNames, data \in Payloads, fds \in FdSets :
         NodeSendRemoteSignal(n, name, data, fds)
    \/ DReturn
    \/ \E n \in DNodes : DropNode(n)

SpecDispatch == InitDispatch /\ [][NextDispatch]_vars

----------------------------------------------------------------------------
(* SpecAttach: capabilities attached to one node, several times each        *)

InitAttach == ZoneFixed /\ DispatchFixed /\ AttachInit /\ RestInit

NextAttach ==
    \/ SpatialAddTo
    \/ CylinderAddTo
    \/ ZoneAddTo
    \/ SoundAddTo
    \/ SoundDrop

SpecAttach == InitAttach /\ [][NextAttach]_vars

----------------------------------------------------------------------------
(* SpecCreate: one node of each kind is created, step by step, while        *)
(* another context sends the new nodes the signals it finds registered      *)

InitCreate == ZoneFixed /\ DispatchFixed /\ AttachInit /\ RestInit

NextCreate ==
    \/ \E k \in CNodes : CreateBegin(k)
    \/ CreateLookup
    \/ CreatePublish
    \/ CreateSpatial
    \/ ZoneAddTo70
    \/ ZoneAddTo73
    \/ CylinderAddTo22
    \/ CylinderAddTo37
    \/ SoundAddTo36
    \/ SoundAddTo57
    \/ CreateReturn
    \/ \E n \in CNodes : \E name \in KindSignals(n) : Invoke(n, name)

SpecCreate == InitCreate /\ [][NextCreate]_vars

----------------------------------------------------------------------------
(* SpecRegistry: instances are added and dropped while a consumer takes     *)
(* snapshots entry by entry and walks them                                  *)

InitRegistry == ZoneFixed /\ DispatchFixed /\ AttachInit /\ RestInit

NextRegistry ==
    \/ \E i \in Insts : RegistryAdd(i)
    \/ \E i \in Insts : OwnerDrop(i)
    \/ SnapshotBegin
    \/ \E i \in Insts : SnapshotVisit(i)
    \/ SnapshotReturn
    \/ SnapshotRelease
    \/ SnapshotEnd

SpecRegistry == InitRegistry /\ [][NextRegistry]_vars

----------------------------------------------------------------------------
(* SpecField: one context sets the size of a cylinder field while another   *)
(* evaluates its distance function                                          *)

InitField == ZoneFixed /\ DispatchFixed /\ AttachInit /\ RestInit

NextField ==
    \/ \E l \in LengthArgs, r \in RadiusArgs : SetSize42(l, r)
    \/ SetSize43
    \/ \E p \in Points : LocalDistance60(p)
    \/ LocalDistance61
    \/ LocalDistance62
    \/ LocalDistance63
    \/ LocalDistanceReturn

SpecField == InitField /\ [][NextField]_vars

----------------------------------------------------------------------------
(* SpecSound: a client's play and stop requests arrive while the frame loop *)
(* runs update                                                              *)

InitSound == ZoneFixed /\ DispatchFixed /\ AttachInit /\ RestInit

NextSound ==
    \/ SoundPlay
    \/ SoundStop
    \/ SoundUpdate61
    \/ SoundUpdate65
    \/ SoundUpdate66
    \/ SoundUpdate70
    \/ SoundUpdate71
    \/ SoundUpdate77
    \/ SoundUpdateReturn

SpecSound == InitSound /\ [][NextSound]_vars

----------------------------------------------------------------------------
(* Properties *)

\* the zones, still alive, whose captured set holds s
CapturedBy(s) == {z \in Zones : zoneAlive[z] /\ s \in captured[z]}

\* C1: under any interleaving of capture, release and teardown by concurrent
\* contexts, a spatial is in the captured set of at most one zone.
C1_AtMostOneZone == \A s \in Spatials : Cardinality(CapturedBy(s)) <= 1

\* a context is inside capture, at one of the given lines
InCapture(t, pcs) == ~Idle(t) /\ Top(t).fn = "capture" /\ Top(t).pc \in pcs

\* the absolute distances the capture rule compares, read from the state
OldAbs(s) ==
    IF zone[s] # NoZone /\ zoneAlive[zone[s]] /\ fieldAlive[zone[s]]
    THEN Abs(dist[zone[s]][s]) ELSE F32Max
NewAbs(z, s) == IF fieldAlive[z] THEN Abs(dist[z][s]) ELSE F32Max

\* C2: capture(spatial, Z) begins a transition (calls release, then binds the
\* spatial to Z and notifies "capture") if and only if new < old strictly;
\* otherwise it returns with parent, snapshot, zone reference, captured sets
\* and notifications unchanged.
C2_TransitionIffCloser ==
    [][\A t \in Threads :
         /\ InCapture(t, {"c20", "c21", "c26"}) =>
              LET s == Top(t).s
                  z == Top(t).z
                  closer == NewAbs(z, s) < OldAbs(s)
              IN /\ (Len(stack'[t]) > Len(stack[t])) <=> (Top(t).pc = "c26" /\ closer)
                 /\ ~closer => UNCHANGED <<parent, old_parent, zone, captured, sent>>
                 /\ (Top(t).pc = "c26" /\ ~closer) => InCapture(t, {"c39"})'
         /\ InCapture(t, {"c31"}) =>
              /\ zone'[Top(t).s] = Top(t).z
              /\ Top(t).s \in captured'[Top(t).z]
              /\ sent'[t][Len(sent'[t])] = Note("capture", Top(t).z, Top(t).s)
      ]_vars

\* a capture by a zone exactly as far as the incumbent has returned, and the
\* incumbent still holds the spatial
C2_Witness ==
    \E t \in Threads :
       /\ InCapture(t, {"c39"})
       /\ Abs(Top(t).new) = Abs(Top(t).old)
       /\ zone[Top(t).s] \notin {NoZone, Top(t).z}
       /\ Top(t).s \in captured[zone[Top(t).s]]

\* C3: capture(spatial, Z) on a spatial already captured by Z changes neither
\* parent nor snapshot, sends no notification and leaves every captured set
\* as it was.
C3_RecaptureNoOp ==
    [][\A t \in Threads :
         (/\ InCapture(t, {"c20", "c21", "c26"})
          /\ zone[Top(t).s] = Top(t).z
          /\ Top(t).s \in captured[Top(t).z]) =>
              /\ UNCHANGED <<parent, old_parent, zone, captured, sent>>
              /\ Len(stack'[t]) <= Len(stack[t])
      ]_vars

\* a capture into the zone that already holds the spatial has returned
C3_Witness ==
    \E t \in Threads :
       /\ InCapture(t, {"c39"})
       /\ zone[Top(t).s] = Top(t).z
       /\ Top(t).s \in captured[Top(t).z]
       /\ sent[t] = <<>>

\* another live zone is exactly as far from s as zone z
TiedWithOther(z, s) ==
    \E z2 \in Zones \ {z} :
       /\ fieldAlive[z] /\ fieldAlive[z2] /\ zoneAlive[z2]
       /\ Abs(dist[z][s]) = Abs(dist[z2][s])

\* C4 as stated: when two zones are equally far from a free spatial, a capture
\* by either leaves the spatial free.
C4_TieStaysFree ==
    \A t \in Threads :
       (InCapture(t, {"c39"}) /\ Top(t).p0 # None /\ TiedWithOther(Top(t).z, Top(t).s))
          => (zone[Top(t).s] = NoZone /\ CapturedBy(Top(t).s) = {})

\* C4 amended: the first of two equally distant zones to call capture on a
\* free spatial captures it, and the later call of the other is a no-op that
\* leaves it with the first.
C4_FirstCallerWins ==
    \A t \in Threads :
       InCapture(t, {"c39"}) =>
          LET f == Top(t)
          IN /\ (f.p0 # None /\ fieldAlive[f.z]) =>
                   (zone[f.s] = f.z /\ CapturedBy(f.s) = {f.z})
             /\ (f.p0 = None /\ f.old # F32Max /\ Abs(f.new) = Abs(f.old)) =>
                   /\ zone[f.s] # NoZone
                   /\ CapturedBy(f.s) = {zone[f.s]}
                   /\ Abs(dist[zone[f.s]][f.s]) = Abs(f.old)
                   /\ sent[t] = <<>>

\* the first of two equally distant zones has captured a free spatial
C4_Witness ==
    \E t \in Threads :
       /\ InCapture(t, {"c39"})
       /\ Top(t).p0 # None
       /\ TiedWithOther(Top(t).z, Top(t).s)
       /\ zone[Top(t).s] = Top(t).z

\* C5: when capture moves a spatial from zone Z1 to a nearer zone Z2, the
\* "release" notification for Z1 is sent and the spatial leaves Z1's captured
\* set before it joins Z2's captured set and before "capture" is sent for Z2.
C5_ReleaseBeforeCapture ==
    \A t \in Threads :
       (/\ InCapture(t, {"c28", "c29", "c30", "c31", "c39"})
        /\ Top(t).old # F32Max
        /\ Abs(Top(t).new) < Abs(Top(t).old)) =>
           LET f == Top(t)
           IN /\ Len(sent[t]) >= 1
              /\ sent[t][1][1] = "release" /\ sent[t][1][3] = f.s
              /\ sent[t][1][2] # f.z
              /\ f.s \notin captured[sent[t][1][2]]
              /\ f.pc \in {"c28", "c29", "c30"} => f.s \notin captured[f.z]
              /\ f.pc \in {"c28", "c29", "c30", "c31"} => Len(sent[t]) = 1
              /\ f.pc = "c39" => /\ Len(sent[t]) = 2
                                 /\ sent[t][2] = Note("capture", f.z, f.s)
                                 /\ f.s \in captured[f.z]

\* a capture that took the spatial away from another zone has returned
C5_Witness ==
    \E t \in Threads :
       /\ InCapture(t, {"c39"})
       /\ Top(t).old # F32Max
       /\ Abs(Top(t).new) < Abs(Top(t).old)
       /\ Len(sent[t]) = 2

\* context t returns from release in this step
ReleaseReturns(t) ==
    /\ ~Idle(t) /\ Top(t).fn = "release" /\ Top(t).pc \in {"r53", "r54"}
    /\ stack'[t] # stack[t]

\* some context is inside capture for spatial s
CaptureInFlight(s) ==
    \E ti \in AllFrames : FrameAt(ti).fn = "capture" /\ FrameAt(ti).s = s

\* C6: when release(spatial) returns, whatever the state it was called in, the
\* spatial is free: its zone reference is empty and no zone's captured set
\* holds it (stated for releases that race no capture of the same spatial).
C6_ReleaseFrees ==
    [][\A t \in Threads :
         (ReleaseReturns(t) /\ ~CaptureInFlight(Top(t).s)) =>
            /\ zone'[Top(t).s] = NoZone
            /\ (CapturedBy(Top(t).s))' = {}
      ]_vars

\* C7: a free spatial with parent P that is captured and later released has
\* parent P again, whatever its parent was changed to while captured; the
\* snapshot capture takes is the parent the spatial had when capture was called.
C7_RoundTrip ==
    [][\A t \in Threads :
         /\ (/\ InCapture(t, {"c29", "c30", "c31", "c39"})
             /\ Abs(Top(t).new) < Abs(Top(t).old)
             /\ Top(t).p0 # None) =>
               old_parent[Top(t).s] = Top(t).p0
         /\ (ReleaseReturns(t) /\ Top(t).p0 # None) =>
               /\ parent'[Top(t).s] = Top(t).p0
               /\ old_parent'[Top(t).s] = None
      ]_vars

\* a release called on its own for a captured spatial is about to return, the
\* parent the spatial had before its capture restored
C7_Witness ==
    \E t \in Threads :
       /\ Running(t, "release", "r53")
       /\ Len(stack[t]) = 2
       /\ Top(t).p0 # None
       /\ parent[Top(t).s] = Top(t).p0
       /\ old_parent[Top(t).s] = None

\* (the case the round trip is about: the parent was changed while captured)
C7_Changed ==
    \E t \in Threads :
       /\ Running(t, "release", "r41")
       /\ zone[Top(t).s] # NoZone
       /\ parent[Top(t).s] # pre_capture[Top(t).s]

\* Drop for Zone has gone through every captured spatial of its snapshot
DropDone(t) == Running(t, "drop", "d158") /\ Top(t).todo = {}

\* C8: when a zone is torn down, every spatial its captured set held ends with
\* the parent it had before its capture, its snapshot consumed and its zone
\* reference empty, and no spatial refers to the torn-down zone.
C8_TeardownRestores ==
    \A t \in Threads :
       DropDone(t) =>
          /\ \A s \in Top(t).snap : /\ zone[s] = NoZone
                                    /\ old_parent[s] = None
                                    /\ parent[s] = pre_capture[s]
          /\ \A s \in Spatials : zone[s] # Top(t).z

\* the teardown of a zone that held both spatials has released them
C8_Witness ==
    \E t \in Threads : DropDone(t) /\ Top(t).snap = Spatials

\* C9: the teardown of a zone sends a "release" notification, with the
\* spatial's id, for every spatial the zone still held.
C9_TeardownNotifies ==
    \A t \in Threads :
       DropDone(t) =>
          \A s \in Top(t).snap :
             \E i \in DOMAIN sent[t] : sent[t][i] = Note("release", Top(t).z, s)

\* the signed distance of s to the zone that captures it, maximal when none does
OwnDistance(s) ==
    IF zone[s] # NoZone /\ zoneAlive[zone[s]] /\ fieldAlive[zone[s]]
    THEN dist[zone[s]][s] ELSE F32Max

Count(q, x) == Cardinality({i \in DOMAIN q : q[i] = x})

\* C11: a successful update of zone Z with previous visible set P and new set N
\* has sent exactly one "enter" for each id of N \ P, exactly one "leave" for
\* each id of P \ N, and no enter or leave for any other id.
C11_DiffNotes ==
    \A t \in Threads :
       Running(t, "update", "u152") =>
          LET z == Top(t).z
              P == Top(t).snap
              N == zoneables[z]
          IN /\ \A s \in Spatials :
                  /\ Count(sent[t], Note("enter", z, s)) = IF s \in N \ P THEN 1 ELSE 0
                  /\ Count(sent[t], Note("leave", z, s)) = IF s \in P \ N THEN 1 ELSE 0
             /\ \A i \in DOMAIN sent[t] : sent[t][i][2] = z

\* a successful update has sent an enter for one object and a leave for another
C11_Witness ==
    \E t \in Threads :
       /\ Running(t, "update", "u152")
       /\ \E a, b \in Spatials :
             /\ a \in zoneables[Top(t).z] \ Top(t).snap
             /\ b \in Top(t).snap \ zoneables[Top(t).z]
             /\ Count(sent[t], Note("enter", Top(t).z, a)) = 1
             /\ Count(sent[t], Note("leave", Top(t).z, b)) = 1

\* an update call of context t is about to return
UpdateDone(t) ==
    ~Idle(t) /\ Top(t).fn = "update" /\ Top(t).pc \in {"u152", "uErr", "u92", "u100"}

\* C12: when an update call on zone Z returns, with success or with an error,
\* the alias nodes of Z present in the client's scenegraph are exactly those of
\* Z's stored visible map.
C12_AliasesAreStoredMap ==
    \A t \in Threads : UpdateDone(t) => aliasNodes[Top(t).z] = zoneables[Top(t).z]

\* C13: an update on a zone whose field is destroyed, or whose node or client
\* cannot be resolved, returns an error (a destroyed field always does) and
\* changes nothing: aliases, notifications and the stored visible set are as
\* they were before the call.
C13_EarlyErrorChangesNothing ==
    [][\A t \in SeqThreads :
          /\ Running(t, "update", "u90") /\ ~fieldAlive[Top(t).z]
                => Running(t, "update", "u92")'
          /\ (\/ Running(t, "update", "u90") /\ ~Running(t, "update", "u102")'
              \/ Running(t, "update", "u92")
              \/ Running(t, "update", "u100"))
                => /\ UNCHANGED <<zoneables, aliasNodes, entered, captured, zone, parent>>
                   /\ sent[t] = <<>> /\ sent'[t] = <<>>]_vars

\* an update fails on a destroyed field while the zone has a stored visible set
C13_Witness ==
    \E t \in Threads :
       /\ Running(t, "update", "u92")
       /\ zoneables[Top(t).z] # {}
       /\ aliasNodes[Top(t).z] # {}

\* C14: whenever no update is running, the ids for which zone Z's client has
\* been sent "enter" without a later "leave" are the keys of Z's stored
\* visible map.
C14_ClientSeesStoredSet ==
    Quiet => \A z \in Zones : entered[z] = zoneables[z]

\* a call of kind op has run to its end and has not yet returned to its caller
DDone(op) == dcall.op = op /\ dresult \notin {"pending", "none"}

\* C15: an alias made by a zone update forwards from its client the signals
\* set_transform, set_spatial_parent, set_spatial_parent_in_place and the
\* methods get_bounds, get_transform; any other name is answered with
\* SignalNotFound or MethodNotFound and reaches no handler.
C15_ZoneAliasSurface ==
    LET n == dcall.first
        sigs == {"set_transform", "set_spatial_parent", "set_spatial_parent_in_place"}
        mets == {"get_bounds", "get_transform"}
        direct == original[n] = "o" /\ alive["o"]
    IN /\ DDone("signal") /\ IsAlias(n) /\ info[n] = ZoneAliasInfo =>
            /\ dcall.name \notin sigs => dresult = "SignalNotFound" /\ invoked = <<>>
            /\ dcall.name \in sigs /\ direct /\ dcall.name \in local_signals["o"] =>
                  Len(invoked) = 1 /\ invoked[1].node = "o" /\ invoked[1].name = dcall.name
       /\ DDone("method") /\ IsAlias(n) /\ info[n] = ZoneAliasInfo =>
            /\ dcall.name \notin mets =>
                  completions = <<"MethodNotFound">> /\ invoked = <<>>
            /\ dcall.name \in mets /\ direct /\ dcall.name \in local_methods["o"] =>
                  Len(invoked) = 1 /\ invoked[1].node = "o" /\ completions = <<>>

\* destroy, sent to a zone alias of a live original that handles destroy, has
\* been answered with SignalNotFound
C15_Witness ==
    /\ DDone("signal") /\ dcall.first = "a" /\ info["a"] = ZoneAliasInfo
    /\ dcall.name = "destroy" /\ alive["o"] /\ "destroy" \in local_signals["o"]
    /\ dresult = "SignalNotFound"

\* C16: a signal whose name is absent from an alias's inbound allow-list gets
\* SignalNotFound and invokes no handler, whatever the original's handler
\* table and whether or not the original is still alive: the answer is a
\* function of the allow-list and the name alone.
C16_RejectionHidesOriginal ==
    DDone("signal") /\ IsAlias(dcall.first)
       /\ dcall.name \notin info[dcall.first].server_signals
       => dresult = "SignalNotFound" /\ invoked = <<>>

\* a name the dead original had a handler for is rejected like any other
C16_Witness ==
    /\ DDone("signal") /\ IsAlias(dcall.first)
    /\ dcall.name \notin info[dcall.first].server_signals
    /\ ~alive[original[dcall.first]]
    /\ dcall.name \in local_signals["o"]
    /\ dresult = "SignalNotFound"

\* C17: a handler reached through an alias receives the payload of the call
\* and no out-of-band resources.
C17_ForwardStripsFds ==
    dcall.op \in {"signal", "method"} /\ dcall.crossed =>
       \A i \in DOMAIN invoked : invoked[i].data = dcall.data /\ invoked[i].fds = {}

RECURSIVE MethodOutcome(_, _)
\* what the claim says the responder of a method call on n gets
MethodOutcome(n, name) ==
    IF IsAlias(n)
    THEN IF name \notin info[n].server_methods THEN "MethodNotFound"
         ELSE IF ~alive[original[n]] THEN "BrokenAlias"
         ELSE MethodOutcome(original[n], name)
    ELSE IF name \notin local_methods[n] THEN "MethodNotFound" ELSE "handler"

\* C18: the responder of execute_local_method is never completed or handed
\* over twice, and when the call returns it has been completed once by the
\* dispatch code (MethodNotFound, BrokenAlias) or handed to one handler.
C18_ResponderOnce ==
    dcall.op = "method" =>
       /\ Len(completions) + Len(invoked) <= 1
       /\ DDone("method") =>
            LET e == MethodOutcome(dcall.first, dcall.name)
            IN IF e = "handler"
               THEN completions = <<>> /\ Len(invoked) = 1
               ELSE completions = <<e>> /\ invoked = <<>>

\* a method sent through a chain of two aliases has been answered BrokenAlias
C18_Witness ==
    /\ DDone("method") /\ dcall.first = "b" /\ original["b"] = "a"
    /\ dcall.at = "a" /\ ~alive["o"]
    /\ completions = <<"BrokenAlias">>

\* the handle.signal calls made on the endpoint of node x
DeliveredTo(x) == {i \in DOMAIN delivered : delivered[i].to = x}

\* C19: send_remote_signal on node n makes one delivery, without resources, to
\* the endpoint of every live alias of n whose outbound list has the name,
\* none to the aliases of n whose list lacks it, and, whether or not a
\* delivery to an alias failed, one delivery with the resources to n's own
\* endpoint when n has a transport.
C19_FanOut ==
    DDone("remote") =>
       LET n == dcall.first
       IN /\ \A x \in DNodes :
               original[x] = n =>
                  IF alive[x] /\ transport[x] /\ dcall.name \in info[x].client_signals
                  THEN /\ Cardinality(DeliveredTo(x)) = 1
                       /\ \A i \in DeliveredTo(x) :
                             delivered[i].data = dcall.data /\ delivered[i].fds = {}
                                /\ delivered[i].name = dcall.name
                  ELSE DeliveredTo(x) = {}
          /\ IF transport[n]
             THEN /\ Cardinality(DeliveredTo(n)) = 1
                  /\ \A i \in DeliveredTo(n) :
                        delivered[i].data = dcall.data /\ delivered[i].fds = dcall.fds0
                           /\ delivered[i].name = dcall.name
             ELSE DeliveredTo(n) = {}

\* a signal carrying a resource went to one alias, whose delivery failed, not
\* to the other alias, and to the node's own endpoint with the resource
C19_Witness ==
    /\ DDone("remote") /\ dcall.first = "o" /\ dcall.fds0 = {"fd1"}
    /\ original["a"] = "o" /\ original["b"] = "o"
    /\ \E i \in DeliveredTo("a") : ~delivered[i].ok
    /\ alive["b"] /\ DeliveredTo("b") = {}
    /\ \E i \in DeliveredTo("o") : delivered[i].ok /\ delivered[i].fds = {"fd1"}

\* C20: an add_to on a node whose slot for that capability is occupied
\* returns an error and leaves the slots, the handler table and the registry
\* as they were.
C20_OccupiedSlotFails ==
    [][\A k \in Kinds :
          areturn'.n # areturn.n /\ areturn'.kind = k /\ slots[k] # Empty
             => /\ areturn'.res = "Err"
                /\ UNCHANGED <<slots, table, sound_registry>>]_vars

\* context t waits at line 42 for the lock on spatial.zone while a frame
\* further down its own stack holds that lock
SelfBlocked(t) ==
    /\ Running(t, "release", "r42")
    /\ \E i \in 1..(Len(stack[t]) - 1) : HoldsZoneLock(stack[t][i], Top(t).s)

\* C25: no context of a concurrent run of capture, release and teardown waits
\* for a lock on a spatial's zone reference that it holds itself.
C25_NoSelfDeadlock == \A t \in Threads : ~SelfBlocked(t)

\* no capture, release or teardown is running in any context
NoCallInProgress ==
    \A ti \in AllFrames : FrameAt(ti).fn \notin {"capture", "release", "drop"}

\* the zone that the zone reference of s resolves to, NoZone when it is empty
\* or dangling
Resolves(s) == IF zone[s] # NoZone /\ zoneAlive[zone[s]] THEN zone[s] ELSE NoZone

\* C26: whenever no capture or release is in progress, the zone reference of a
\* spatial resolves to zone Z exactly when the spatial is in Z's captured set,
\* and a parent snapshot is present only for a captured spatial.
C26_RefMatchesCaptured ==
    NoCallInProgress =>
       \A s \in Spatials :
          /\ \A z \in Zones : Resolves(s) = z <=> (zoneAlive[z] /\ s \in captured[z])
          /\ old_parent[s] # None => Resolves(s) # NoZone

\* one spatial is captured with its snapshot, the other has been captured and
\* released, and a zone has been torn down
C26_Witness ==
    /\ NoCallInProgress
    /\ \E s \in Spatials : Resolves(s) # NoZone /\ old_parent[s] # None
    /\ \E s \in Spatials : Resolves(s) = NoZone /\ pre_capture[s] # None
    /\ \E z \in Zones : ~zoneAlive[z]

\* C27: a release dispatched on the node of zone Z, naming a spatial captured
\* by another zone, leaves that spatial's parent, zone reference and zone's
\* captured set as they are and sends that zone's client nothing.
C27_ReleaseOnlyOwn ==
    [][\A t \in SeqThreads :
          Len(stack[t]) >= 2 /\ stack[t][1].fn = "handler" /\ stack[t][2].fn = "release"
             => LET z == stack[t][1].z
                    s == stack[t][2].s
                IN Resolves(s) \notin {NoZone, z}
                      => /\ parent'[s] = parent[s]
                         /\ zone'[s] = zone[s]
                         /\ captured'[zone[s]] = captured[zone[s]]
                         /\ notified'[zone[s]] = notified[zone[s]]]_vars

\* the note that a step of context t has just sent, <<>> when it sent none
JustSent(t) ==
    IF Len(sent'[t]) = Len(sent[t]) + 1 THEN sent'[t][Len(sent'[t])] ELSE <<>>

\* C28: the "capture" and "release" notifications about a spatial sent to one
\* zone's client alternate, beginning with "capture": a "capture" is sent only
\* when none is unmatched, a "release" only when a "capture" is unmatched.
C28_NotesAlternate ==
    [][\A t \in SeqThreads :
          LET n == JustSent(t)
          IN /\ n # <<>> /\ n[1] = "capture" => n[3] \notin notified[n[2]]
             /\ n # <<>> /\ n[1] = "release" => n[3] \in notified[n[2]]]_vars

\* a spatial taken over by a second zone: "release" to the first zone's
\* client, then "capture" to the second's, which closes one pair and opens one
C28_Witness ==
    \E t \in SeqThreads, z1 \in Zones, z2 \in Zones, s \in Spatials :
       /\ z1 # z2
       /\ sent[t] = <<Note("release", z1, s), Note("capture", z2, s)>>
       /\ s \notin notified[z1] /\ s \in notified[z2]

\* node n has its spatial and the capability of its kind
Complete(n) == {"spatial", n} \subseteq cslots[n]

\* C21: a node that the scenegraph holds has every capability of its kind
\* attached: a failed creation leaves no node behind, and no node is
\* published before its capabilities are attached.
C21_PublishedIsComplete == \A n \in scenegraph : Complete(n)

\* once the create call of a node has returned, with Ok or with an error, the
\* node is complete if the scenegraph holds it
NoLeftover ==
    \A n \in scenegraph : creating.node # n => Complete(n)

\* C29: no handler found in the table of a published node runs on an empty
\* capability slot.
C29_HandlerFindsSlot == ~panicked

\* the instances in the snapshot
InSnapshot == {snapshot[k] : k \in DOMAIN snapshot}

\* an instance is live from its add until its Drop has run
Live(i) == i \in everAdded /\ strong[i] > 0 /\ i \in reg

\* C22: a snapshot of get_valid_contents holds only live instances for as long
\* as it holds them, holds each at most once, and, when it is returned, holds
\* every instance that was in the registry when it began and has not been
\* dropped since.
C22_SnapshotSound ==
    /\ \A k \in DOMAIN snapshot : Live(snapshot[k])
    /\ \A j, k \in DOMAIN snapshot : j # k => snapshot[j] # snapshot[k]
    /\ cpc = "scan" /\ scan = {} => (atStart \ goneSince) \subseteq InSnapshot

\* a snapshot was returned that holds an instance its owner has dropped since,
\* and lacks an instance that was dropped before it was reached
C22_Witness ==
    /\ cpc = "hold"
    /\ \E i \in InSnapshot : strong[i] = 1 /\ i \in reg
    /\ \E i \in atStart : i \in goneSince /\ i \notin InSnapshot
    /\ Len(snapshot) >= 2

\* the radial and the axial offset of the query point, in steps
Rho == Abs(point[1]) + Abs(point[2])
Axial == Abs(point[3])
InCylinder == Rho <= loaded[2] /\ 2 * Axial <= loaded[1]

\* C23: the value local_distance returns is <= 0 exactly when the point is
\* within the radius and within half the length, is 0 on either bound, and
\* inside equals the larger of rho - R and a - L/2; outside it is positive.
C23_DistanceSign ==
    epc = "done" =>
        /\ (result <= 0) <=> InCylinder
        /\ InCylinder /\ (Rho = loaded[2] \/ 2 * Axial = loaded[1]) => result = 0
        /\ InCylinder => 2 * result = Max(2 * (Rho - loaded[2]), 2 * Axial - loaded[1])

\* C24: an evaluation that ran during at most one call of set_size computed
\* from the pair stored before that call or from the pair stored by it.
C24_ConsistentPair ==
    epc = "done" /\ calls <= 1 => loaded \in pairs

\* C30: when an update that took a stop request returns and no play request
\* was issued after the last stop request, no instance is playing; and no
\* instance is ever started from a play request that was issued while an
\* instance was playing.
C30_StopWins ==
    /\ upc = "ret" /\ tookStop /\ ~playAfterStop => instance = NoInstance
    /\ ~staleStart

\* the first half of C30 alone
StopLeavesSilence ==
    upc = "ret" /\ tookStop /\ ~playAfterStop => instance = NoInstance

\* the second half of C30 alone
NoStaleStart == ~staleStart

====
